---- MODULE Spec2Model ----
\* Verification model of decodeless/mappedfile, POSIX back-end
\* (src/unnamed/part_002): FileDescriptor, MemoryMap<Prot>, MappedFile<W>,
\* ResizableMappedFile and ResizableMappedMemory, over a page-granular model
\* of the process address space and one backing file.
\* The Windows back-end (mappedfile_windows.hpp): Handle, Section,
\* SectionView, MappedFile<W> and ResizableMappedFile, runs over the same
\* address space and file under its own specification, SpecWin.
EXTENDS Integers, Sequences, FiniteSets, TLC

\* ---------------------------------------------------------------- bounds
PageSize == 2        \* bytes per page (sysconf(_SC_PAGESIZE), scaled down)
NPages   == 3        \* pages 1..NPages of address space; page 0 holds nullptr
MaxCap   == 3        \* largest maxSize handed to a constructor
MaxByte  == 1        \* bytes written by the caller are 1..MaxByte; 0 is zero fill
MaxFault == 4        \* an operation's 1st..MaxFault-th system call may be the one that fails

\* ------------------------------------------------------- program constants
nullptr    == 0
MAP_FAILED == -1
NoFd       == -1

Pages  == 1..NPages
Bytes  == 0..MaxByte
Caps   == 0..MaxCap          \* maxSize arguments
Sizes  == 0..(MaxCap + 1)    \* resize / initialSize arguments

\* os      : kernel state: page table, the backing file, open descriptors,
\*           system calls issued by the running operation
\* rf      : the ResizableMappedFile object (if any)
\* rm      : the ResizableMappedMemory object (if any)
\* mf      : the MappedFile<Writable> object (if any)
\* wrf     : the ResizableMappedFile object of the Windows back-end (if any)
\* wmf     : the MappedFile<Writable> object of the Windows back-end (if any)
\* ev      : the last operation, its arguments, outcome and the
\*           observations made just before it
VARIABLES os, rf, rm, mf, wrf, wmf, ev
vars == <<os, rf, rm, mf, wrf, wmf, ev>>

\* ------------------------------------------------------------ kernel model
ZeroPage == [i \in 1..PageSize |-> 0]
\* k: "free" | "anon" | "file"; prot: "none" | "r" | "rw";
\* shared: MAP_SHARED file page (loads and stores go to the file);
\* fpg: file page index; data: page contents for anon / private pages;
\* view: address and length of the mmap call that installed the page;
\* sec: the section a page of a Windows view belongs to (0: none)
FreePage == [k |-> "free", prot |-> "none", shared |-> FALSE, fpg |-> 0, data |-> ZeroPage,
             view |-> <<0, 0>>, sec |-> 0]
NoFile   == [exists |-> FALSE, bytes |-> <<>>]

pageSize == PageSize
PageOf(addr)    == addr \div PageSize
NumPages(len)   == (len + PageSize - 1) \div PageSize
Range(addr, len) == {p \in Pages : PageOf(addr) <= p /\ p < PageOf(addr) + NumPages(len)}
InSpace(addr, len) == addr >= PageSize /\ addr % PageSize = 0
                      /\ PageOf(addr) + NumPages(len) - 1 <= NPages

\* a system call is entered: it is recorded together with the page table it
\* found, and the count down to the call that fails moves on
Log(k, call) == [k EXCEPT !.log = Append(@, call), !.hist = Append(@, k.vm),
                          !.fault = IF @ > 0 THEN @ - 1 ELSE 0,
                          !.failed = @ \/ k.fault = 1]

\* the call being entered is the one the system fails (ENOMEM, EIO, ...)
Fails(k) == k.fault = 1

\* sequencing: the value of one step, computed once, handed to the next
Bind(v, F(_)) == CHOOSE r \in {F(x) : x \in {v}} : TRUE

\* the bytes of file page fpg, zero padded past end of file
FilePage(bytes, fpg) ==
  [i \in 1..PageSize |->
     IF fpg * PageSize + i <= Len(bytes) THEN bytes[fpg * PageSize + i] ELSE 0]

\* addresses the kernel may pick for a non-fixed mapping of len bytes
Placements(k, len) ==
  {p * PageSize : p \in {q \in Pages : q + NumPages(len) - 1 <= NPages
                           /\ \A r \in q..(q + NumPages(len) - 1) : k.vm[r].k = "free"}}

\* mmap(2). place is the kernel's choice of address for a non-fixed request.
\* A zero length is EINVAL; MAP_FIXED replaces whatever is mapped in the range.
mmap(k, addr, length, prot, flags, fd, place) ==
  LET fixed == "MAP_FIXED" \in flags
      base  == IF fixed THEN addr ELSE place
      bad   == \/ Fails(k)
               \/ length = 0
               \/ fixed /\ ~InSpace(addr, length)
               \/ ~fixed /\ place \notin Placements(k, length)
               \/ "MAP_ANONYMOUS" \notin flags /\ fd \notin k.fds
      entry(p) ==
        IF "MAP_ANONYMOUS" \in flags
        THEN [k |-> "anon", prot |-> prot, shared |-> FALSE, fpg |-> 0, data |-> ZeroPage,
              view |-> <<base, length>>, sec |-> 0]
        ELSE [k |-> "file", prot |-> prot, shared |-> "MAP_SHARED" \in flags,
              fpg |-> p - PageOf(base),
              data |-> IF "MAP_SHARED" \in flags THEN ZeroPage
                       ELSE FilePage(k.disk.bytes, p - PageOf(base)),
              view |-> <<base, length>>, sec |-> 0]
      k1 == Log(k, <<"mmap", IF fixed THEN addr ELSE nullptr, length, prot>>)
  IN IF bad THEN [k |-> k1, ret |-> MAP_FAILED]
     ELSE [k   |-> [k1 EXCEPT !.vm = [p \in Pages |->
                       IF p \in Range(base, length) THEN entry(p) ELSE k1.vm[p]]],
           ret |-> base]

\* munmap(2)
munmap(k, addr, length) ==
  LET k1 == Log(k, <<"munmap", addr, length>>)
  IN IF Fails(k) \/ length = 0 \/ ~InSpace(addr, length) THEN [k |-> k1, ret |-> -1]
     ELSE [k |-> [k1 EXCEPT !.vm = [p \in Pages |->
                     IF p \in Range(addr, length) THEN FreePage ELSE k1.vm[p]]],
           ret |-> 0]

\* msync(2): ENOMEM when part of the range is not mapped. Stores to a
\* MAP_SHARED page already live in the file's page cache; a MAP_PRIVATE
\* page is never written back.
msync(k, addr, length) ==
  LET k1 == Log(k, <<"msync", addr, length>>)
  IN IF \/ Fails(k) \/ ~InSpace(addr, length)
        \/ \E p \in Range(addr, length) : k.vm[p].k = "free"
     THEN [k |-> k1, ret |-> -1]
     ELSE [k |-> k1, ret |-> 0]

\* mprotect(2): ENOMEM when part of the range is not mapped
mprotect(k, addr, length, prot) ==
  LET k1 == Log(k, <<"mprotect", addr, length, prot>>)
  IN IF \/ Fails(k) \/ ~InSpace(addr, length)
        \/ \E p \in Range(addr, length) : k.vm[p].k = "free"
     THEN [k |-> k1, ret |-> -1]
     ELSE [k |-> [k1 EXCEPT !.vm = [p \in Pages |->
                     IF p \in Range(addr, length) THEN [k1.vm[p] EXCEPT !.prot = prot]
                     ELSE k1.vm[p]]],
           ret |-> 0]

\* madvise(2) with MADV_DONTNEED: private anonymous pages are dropped and
\* read as zero afterwards; private file pages revert to the file's bytes
madvise(k, addr, length) ==
  LET k1 == Log(k, <<"madvise", addr, length>>)
      drop(e) == IF e.k = "anon" THEN [e EXCEPT !.data = ZeroPage]
                 ELSE IF e.k = "file" /\ ~e.shared
                      THEN [e EXCEPT !.data = FilePage(k.disk.bytes, e.fpg)]
                 ELSE e
  IN IF \/ Fails(k) \/ ~InSpace(addr, length)
        \/ \E p \in Range(addr, length) : k.vm[p].k = "free"
     THEN [k |-> k1, ret |-> -1]
     ELSE [k |-> [k1 EXCEPT !.vm = [p \in Pages |->
                     IF p \in Range(addr, length) THEN drop(k1.vm[p]) ELSE k1.vm[p]]],
           ret |-> 0]

\* open(2) of the one path; O_CREAT creates a missing file with length 0
open(k, flags) ==
  LET k1  == Log(k, <<"open">>)
      fd  == CHOOSE n \in 3..(3 + Cardinality(k.fds)) : n \notin k.fds
  IN IF Fails(k) \/ (~k.disk.exists /\ "O_CREAT" \notin flags) THEN [k |-> k1, ret |-> -1]
     ELSE [k |-> [k1 EXCEPT !.fds = @ \cup {fd},
                            !.disk = IF k.disk.exists THEN @
                                     ELSE [exists |-> TRUE, bytes |-> <<>>]],
           ret |-> fd]

\* close(2): the descriptor is gone whatever close returns, and the code
\* does not look at what it returns
close(k, fd) == [Log(k, <<"close", fd>>) EXCEPT !.fds = @ \ {fd}]

\* fstat(2), st_size
fstat(k, fd) ==
  LET k1 == Log(k, <<"fstat", fd>>)
  IN IF Fails(k) \/ fd \notin k.fds THEN [k |-> k1, ret |-> -1, st_size |-> 0]
     ELSE [k |-> k1, ret |-> 0, st_size |-> Len(k.disk.bytes)]

\* ftruncate(2): cut, or extend with zero bytes
ftruncate(k, fd, size) ==
  LET k1 == Log(k, <<"ftruncate", size>>)
      b  == k.disk.bytes
  IN IF Fails(k) \/ fd \notin k.fds THEN [k |-> k1, ret |-> -1]
     ELSE [k |-> [k1 EXCEPT !.disk.bytes =
                     [i \in 1..size |-> IF i <= Len(b) THEN b[i] ELSE 0]],
           ret |-> 0]

\* a load / store of one byte through a pointer
Load(k, a) ==
  LET e == k.vm[PageOf(a)]
      i == (a % PageSize) + 1
  IN IF e.k = "file" /\ e.shared THEN FilePage(k.disk.bytes, e.fpg)[i] ELSE e.data[i]

Store(k, a, b) ==
  LET p == PageOf(a)
      e == k.vm[p]
      i == (a % PageSize) + 1
      o == e.fpg * PageSize + i
  IN IF e.k = "file" /\ e.shared
     THEN (IF o <= Len(k.disk.bytes) THEN [k EXCEPT !.disk.bytes[o] = b] ELSE k)
     ELSE [k EXCEPT !.vm[p].data[i] = b]

\* ---------------------------------------------------------- FileDescriptor
\* size() computed from the allocated blocks: rounded up to whole pages
FileDescriptor_size_rounded(k, fd) ==
  Bind(fstat(k, fd), LAMBDA r :
    [k |-> r.k, exc |-> IF r.ret = -1 THEN "mapping_error" ELSE "none",
     ret |-> NumPages(r.st_size) * PageSize])

\* FileDescriptor::stat and FileDescriptor::size
FileDescriptor_size(k, fd) ==
  Bind(fstat(k, fd), LAMBDA r :
    [k |-> r.k, exc |-> IF r.ret = -1 THEN "mapping_error" ELSE "none",
     ret |-> r.st_size])

\* --------------------------------------------------------------- MemoryMap
\* a MemoryMap<prot> object; a moved-from object has m_address = MAP_FAILED
NullOpt == [has |-> FALSE, m_size |-> 0, m_address |-> MAP_FAILED, m_fixed |-> FALSE]

\* a constructor reporting a failed mmap as an allocation failure
MemoryMap_badalloc(k, prot, addr, length, flags, fd, place) ==
  Bind(mmap(k, addr, length, prot, flags, fd, place), LAMBDA r :
    [k   |-> r.k,
     exc |-> IF r.ret = MAP_FAILED THEN "bad_alloc" ELSE "none",
     obj |-> [has |-> TRUE, m_size |-> length, m_address |-> r.ret,
              m_fixed |-> "MAP_FIXED" \in flags]])

\* MemoryMap::MemoryMap
MemoryMap(k, prot, addr, length, flags, fd, place) ==
  Bind(mmap(k, addr, length, prot, flags, fd, place), LAMBDA r :
    [k   |-> r.k,
     exc |-> IF r.ret = MAP_FAILED THEN "mapping_error" ELSE "none",
     obj |-> [has |-> TRUE, m_size |-> length, m_address |-> r.ret,
              m_fixed |-> "MAP_FIXED" \in flags]])

\* MemoryMap::sync
sync(k, m) ==
  Bind(msync(k, m.m_address, m.m_size), LAMBDA r :
    [k |-> r.k, exc |-> IF r.ret = -1 THEN "mapping_error" ELSE "none"])

\* unmap that unmaps a fixed mapping instead of reverting it to PROT_NONE
unmap_nofixed(k, prot, m) ==
  IF m.m_address = MAP_FAILED THEN [k |-> k, exc |-> "none"]
  ELSE Bind(IF prot = "rw" THEN sync(k, m) ELSE [k |-> k, exc |-> "none"], LAMBDA s :
         IF s.exc # "none" THEN s
         ELSE Bind(munmap(s.k, m.m_address, m.m_size),
                   LAMBDA r : [k   |-> r.k,
                               exc |-> IF r.ret = -1 THEN "mapping_error" ELSE "none"]))

\* unmap that releases the range without the sync
unmap_nosync(k, prot, m) ==
  IF m.m_address = MAP_FAILED THEN [k |-> k, exc |-> "none"]
  ELSE IF m.m_fixed
       THEN Bind(mmap(k, m.m_address, m.m_size, "none",
                      {"MAP_FIXED", "MAP_PRIVATE", "MAP_ANONYMOUS"}, NoFd, nullptr),
                 LAMBDA r : [k   |-> r.k,
                             exc |-> IF r.ret = MAP_FAILED THEN "mapping_error" ELSE "none"])
       ELSE Bind(munmap(k, m.m_address, m.m_size),
                 LAMBDA r : [k   |-> r.k,
                             exc |-> IF r.ret = -1 THEN "mapping_error" ELSE "none"])

\* MemoryMap::unmap
unmap(k, prot, m) ==
  IF m.m_address = MAP_FAILED THEN [k |-> k, exc |-> "none"]
  ELSE Bind(IF prot = "rw" THEN sync(k, m) ELSE [k |-> k, exc |-> "none"], LAMBDA s :
         IF s.exc # "none" THEN s
         ELSE IF m.m_fixed
              THEN Bind(mmap(s.k, m.m_address, m.m_size, "none",
                             {"MAP_FIXED", "MAP_PRIVATE", "MAP_ANONYMOUS"}, NoFd, nullptr),
                        LAMBDA r : [k   |-> r.k,
                                    exc |-> IF r.ret = MAP_FAILED THEN "mapping_error"
                                            ELSE "none"])
              ELSE Bind(munmap(s.k, m.m_address, m.m_size),
                        LAMBDA r : [k   |-> r.k,
                                    exc |-> IF r.ret = -1 THEN "mapping_error" ELSE "none"]))

\* a move that leaves the source pointing at the mapping it gave away
MovedFrom_alias(m) == m

\* a moved-from MemoryMap: m_address is MAP_FAILED, the rest is as it was
MovedFrom(m) == [m EXCEPT !.m_address = MAP_FAILED]

\* a move constructor that does not copy m_fixed: the new object has the
\* member's default, false
MemoryMap_move_nofixed(m) == [obj |-> [m EXCEPT !.m_fixed = FALSE], other |-> MovedFrom(m)]

\* MemoryMap::MemoryMap(MemoryMap&&): obj is the new object, other the source
MemoryMap_move(m) == [obj |-> m, other |-> MovedFrom(m)]

\* MemoryMap::operator=(MemoryMap&&), noexcept: an exception leaving unmap
\* ends the program
MemoryMap_assign(k, prot, m, other) ==
  Bind(unmap(k, prot, m), LAMBDA r :
    IF r.exc # "none" THEN [k |-> r.k, exc |-> "terminate", obj |-> m]
    ELSE [k |-> r.k, exc |-> "none", obj |-> other])

\* ----------------------------------------------------- ResizableMappedFile
\* st: "none" before construction and after drop, "live" in between.
\* data0, zeroed and window are history: what data() returned right after
\* construction, whether a resize(0) has succeeded since, and whether the
\* last resize failed between the release of the view and the new mapping
\* ("failed", kept over resizes rejected for their size), succeeded right
\* after such a failure ("recovered"), was rejected for its size ("rejected")
\* or succeeded right after such a rejection ("accepted").
NoRF == [st |-> "none", m_reserved |-> NullOpt, m_file |-> NoFd, m_mapped |-> NullOpt,
         data0 |-> nullptr, zeroed |-> FALSE, window |-> "no"]

\* data() handing out the reservation base while nothing is mapped
RF_data_base(o) == IF o.m_mapped.has THEN o.m_mapped.m_address ELSE o.m_reserved.m_address

\* capacity() answering with size()
RF_capacity_size(o) == IF o.m_mapped.has THEN o.m_mapped.m_size ELSE 0

\* ResizableMappedFile::data / size / capacity
RF_data(o)     == IF o.m_mapped.has THEN o.m_mapped.m_address ELSE nullptr
RF_size(o)     == IF o.m_mapped.has THEN o.m_mapped.m_size ELSE 0
RF_capacity(o) == o.m_reserved.m_size

\* throwIfAbove that also rejects the limit itself
throwIfAbove_atlimit(v, limit) == IF v >= limit THEN "bad_alloc" ELSE "none"

\* throwIfAbove with an off-by-one limit
throwIfAbove_offbyone(v, limit) == IF v > limit + 1 THEN "bad_alloc" ELSE "none"

\* ResizableMappedFile::throwIfAbove
throwIfAbove(v, limit) == IF v > limit THEN "bad_alloc" ELSE "none"

\* truncate that only ever allocates (posix_fallocate): the file never shrinks
truncate_fallocate(k, fd, size) ==
  Bind(ftruncate(k, fd, IF size > Len(k.disk.bytes) THEN size ELSE Len(k.disk.bytes)),
       LAMBDA r : [k |-> r.k, exc |-> IF r.ret = -1 THEN "mapping_error" ELSE "none"])

\* FileDescriptor::truncate
truncate(k, fd, size) ==
  Bind(ftruncate(k, fd, size), LAMBDA r :
    [k |-> r.k, exc |-> IF r.ret = -1 THEN "mapping_error" ELSE "none"])

\* a destructor that does not close the descriptor
FileDescriptor_dtor_leak(k, fd) == k

\* FileDescriptor::~FileDescriptor
FileDescriptor_dtor(k, fd) == IF fd # NoFd THEN close(k, fd) ELSE k

\* reset that forgets the held value without unmapping it
reset_forget(k, m) == [k |-> k, exc |-> "none"]

\* std::optional<MemoryMapRW>::reset: runs ~MemoryMap on the held value; an
\* exception leaving the destructor ends the program
reset(k, m) ==
  IF ~m.has THEN [k |-> k, exc |-> "none"]
  ELSE Bind(unmap(k, "rw", m), LAMBDA r :
         [k |-> r.k, exc |-> IF r.exc # "none" THEN "terminate" ELSE "none"])

\* map without MAP_FIXED: the reservation base is only a hint, and the kernel
\* places the view in free address space
map_hint(k, o, size) ==
  Bind(Placements(k, size), LAMBDA free :
    Bind(MemoryMap(k, "rw", o.m_reserved.m_address, size, {"MAP_SHARED"}, o.m_file,
                   IF free = {} THEN nullptr ELSE CHOOSE a \in free : TRUE),
         LAMBDA r : [k |-> r.k, exc |-> r.exc,
                     obj |-> [o EXCEPT !.m_mapped = IF r.exc = "none" THEN r.obj
                                                    ELSE NullOpt]]))

\* map of whole pages: the length is rounded up to the page size
map_pages(k, o, size) ==
  Bind(MemoryMap(k, "rw", o.m_reserved.m_address, NumPages(size) * PageSize,
                 {"MAP_FIXED", "MAP_SHARED"}, o.m_file, nullptr),
       LAMBDA r : [k |-> r.k, exc |-> r.exc,
                   obj |-> [o EXCEPT !.m_mapped = IF r.exc = "none" THEN r.obj
                                                  ELSE NullOpt]])

\* map with MAP_PRIVATE: stores stay in a private copy of the pages
map_private(k, o, size) ==
  Bind(MemoryMap(k, "rw", o.m_reserved.m_address, size,
                 {"MAP_FIXED", "MAP_PRIVATE"}, o.m_file, nullptr),
       LAMBDA r : [k |-> r.k, exc |-> r.exc,
                   obj |-> [o EXCEPT !.m_mapped = IF r.exc = "none" THEN r.obj
                                                  ELSE NullOpt]])

\* ResizableMappedFile::map
map(k, o, size) ==
  Bind(MemoryMap(k, "rw", o.m_reserved.m_address, size,
                 {"MAP_FIXED", "MAP_SHARED"}, o.m_file, nullptr),
       LAMBDA r : [k |-> r.k, exc |-> r.exc,
                   obj |-> [o EXCEPT !.m_mapped = IF r.exc = "none" THEN r.obj
                                                  ELSE NullOpt]])

\* destruction of the members in reverse order of declaration:
\* m_mapped, m_file, m_reserved
RF_dtor(k, o) ==
  Bind(reset(k, o.m_mapped), LAMBDA r1 :
    IF r1.exc # "none" THEN [k |-> r1.k, exc |-> "terminate"]
    ELSE Bind(FileDescriptor_dtor(r1.k, o.m_file), LAMBDA k2 :
           Bind(unmap(k2, "none", o.m_reserved), LAMBDA r3 :
             [k |-> r3.k, exc |-> IF r3.exc # "none" THEN "terminate" ELSE "none"])))

\* ResizableMappedFile::ResizableMappedFile(path, maxSize)
ResizableMappedFile(k, maxSize, place) ==
  LET \* the members are destroyed while the exception e propagates; an
      \* exception leaving one of their destructors ends the program
      unwind(kk, oo, e) ==
        Bind(RF_dtor(kk, oo), LAMBDA d :
          [k |-> d.k, exc |-> IF d.exc # "none" THEN "terminate" ELSE e, obj |-> NoRF])
  IN Bind(MemoryMap(k, "none", nullptr, maxSize,
                    {"MAP_PRIVATE", "MAP_ANONYMOUS", "MAP_NORESERVE"}, NoFd, place),
          LAMBDA r1 :
     IF r1.exc # "none" THEN [k |-> r1.k, exc |-> r1.exc, obj |-> NoRF]
     ELSE Bind(open(r1.k, {"O_CREAT", "O_RDWR"}), LAMBDA r2 :
     IF r2.ret = -1
     THEN Bind(unmap(r2.k, "none", r1.obj), LAMBDA d :
            [k |-> d.k, exc |-> IF d.exc # "none" THEN "terminate" ELSE "mapped_file_error",
             obj |-> NoRF])
     ELSE Bind([NoRF EXCEPT !.st = "live", !.m_reserved = r1.obj, !.m_file = r2.ret],
               LAMBDA o2 :
     Bind(FileDescriptor_size(r2.k, r2.ret), LAMBDA sz :
     IF sz.exc # "none" THEN unwind(sz.k, o2, sz.exc)
     ELSE IF throwIfAbove(sz.ret, r1.obj.m_size) # "none" THEN unwind(sz.k, o2, "bad_alloc")
     ELSE IF sz.ret = 0 THEN [k |-> sz.k, exc |-> "none", obj |-> o2]
     ELSE Bind(map(sz.k, o2, sz.ret), LAMBDA r3 :
     IF r3.exc # "none" THEN unwind(r3.k, r3.obj, r3.exc)
     ELSE r3)))))

\* resize that checks the capacity only after the old view is gone
ResizableMappedFile_resize_latecheck(k, o, size) ==
  Bind(reset(k, o.m_mapped), LAMBDA r1 :
  Bind([o EXCEPT !.m_mapped = NullOpt], LAMBDA o1 :
    IF r1.exc # "none" THEN [k |-> r1.k, exc |-> r1.exc, obj |-> o1]
    ELSE IF throwIfAbove(size, o.m_reserved.m_size) # "none"
    THEN [k |-> r1.k, exc |-> "bad_alloc", obj |-> o1]
    ELSE Bind(truncate(r1.k, o.m_file, size), LAMBDA r2 :
    IF r2.exc # "none" THEN [k |-> r2.k, exc |-> r2.exc, obj |-> o1]
    ELSE IF size # 0 THEN map(r2.k, o1, size)
    ELSE [k |-> r2.k, exc |-> "none", obj |-> o1])))

\* ResizableMappedFile::resize
ResizableMappedFile_resize(k, o, size) ==
  IF throwIfAbove(size, o.m_reserved.m_size) # "none"
  THEN [k |-> k, exc |-> "bad_alloc", obj |-> o]
  ELSE Bind(reset(k, o.m_mapped), LAMBDA r1 :
       Bind([o EXCEPT !.m_mapped = NullOpt], LAMBDA o1 :
         IF r1.exc # "none" THEN [k |-> r1.k, exc |-> r1.exc, obj |-> o1]
         ELSE Bind(truncate(r1.k, o.m_file, size), LAMBDA r2 :
         IF r2.exc # "none" THEN [k |-> r2.k, exc |-> r2.exc, obj |-> o1]
         ELSE IF size # 0 THEN map(r2.k, o1, size)
         ELSE [k |-> r2.k, exc |-> "none", obj |-> o1])))

\* FileDescriptor::operator=(FileDescriptor&&)
FileDescriptor_assign(k, fd, other) == IF fd # NoFd THEN close(k, fd) ELSE k

\* std::optional<MemoryMapRW>::operator=(optional&&)
optional_assign(k, m, other) ==
  IF m.has /\ other.has THEN MemoryMap_assign(k, "rw", m, other)
  ELSE IF m.has
       THEN Bind(reset(k, m), LAMBDA r : [k |-> r.k, exc |-> r.exc, obj |-> NullOpt])
  ELSE [k |-> k, exc |-> "none", obj |-> other]

\* a move assignment in the order of declaration of the members, as the
\* compiler would generate it: m_reserved, m_file, m_mapped
ResizableMappedFile_assign_default(k, o, other) ==
  Bind(MemoryMap_assign(k, "none", o.m_reserved, other.m_reserved), LAMBDA r1 :
    IF r1.exc # "none" THEN [k |-> r1.k, exc |-> "terminate", obj |-> o, other |-> other]
    ELSE Bind(FileDescriptor_assign(r1.k, o.m_file, other.m_file), LAMBDA k2 :
         Bind(optional_assign(k2, o.m_mapped, other.m_mapped), LAMBDA r3 :
           IF r3.exc # "none"
           THEN [k |-> r3.k, exc |-> "terminate", obj |-> o, other |-> other]
           ELSE [k |-> r3.k, exc |-> "none",
                 obj   |-> [o EXCEPT !.m_mapped = r3.obj, !.m_file = other.m_file,
                                     !.m_reserved = r1.obj],
                 other |-> [other EXCEPT !.m_mapped = IF @.has THEN MovedFrom(@) ELSE @,
                                         !.m_file = NoFd,
                                         !.m_reserved = MovedFrom(@)]])))

\* ResizableMappedFile::operator=(ResizableMappedFile&&): m_mapped, m_file,
\* m_reserved. obj is the destination, other the moved-from source.
ResizableMappedFile_assign(k, o, other) ==
  Bind(optional_assign(k, o.m_mapped, other.m_mapped), LAMBDA r1 :
    IF r1.exc # "none" THEN [k |-> r1.k, exc |-> "terminate", obj |-> o, other |-> other]
    ELSE Bind(FileDescriptor_assign(r1.k, o.m_file, other.m_file), LAMBDA k2 :
         Bind(MemoryMap_assign(k2, "none", o.m_reserved, other.m_reserved), LAMBDA r3 :
           IF r3.exc # "none"
           THEN [k |-> r3.k, exc |-> "terminate", obj |-> o, other |-> other]
           ELSE [k |-> r3.k, exc |-> "none",
                 obj   |-> [o EXCEPT !.m_mapped = r1.obj, !.m_file = other.m_file,
                                     !.m_reserved = r3.obj],
                 other |-> [other EXCEPT !.m_mapped = IF @.has THEN MovedFrom(@) ELSE @,
                                         !.m_file = NoFd,
                                         !.m_reserved = MovedFrom(@)]])))

\* ResizableMappedFile(ResizableMappedFile&&) = default: the members are move
\* constructed in the order of their declaration; FileDescriptor's move
\* constructor leaves -1 in the source, and a moved-from optional still holds
\* its (moved-from) MemoryMap
ResizableMappedFile_move(o) ==
  [obj   |-> [o EXCEPT !.m_reserved = MemoryMap_move(@).obj,
                       !.m_mapped = IF @.has THEN MemoryMap_move(@).obj ELSE @],
   other |-> [o EXCEPT !.m_reserved = MemoryMap_move(@).other,
                       !.m_file = NoFd,
                       !.m_mapped = IF @.has THEN MemoryMap_move(@).other ELSE @]]

\* the statements  resizable_file moved(std::move(file));  followed by the
\* end of the scope of file
RF_move_construct(k, o) ==
  Bind(ResizableMappedFile_move(o), LAMBDA mv :
    Bind(RF_dtor(k, mv.other), LAMBDA d :
      [k |-> d.k, exc |-> d.exc, obj |-> mv.obj, other |-> mv.other]))

\* the statement  file = resizable_file(path, maxSize);  a temporary is
\* constructed, moved into the object and destroyed
RF_assign_temporary(k, o, maxSize, place) ==
  Bind(ResizableMappedFile(k, maxSize, place), LAMBDA c :
    IF c.exc # "none" THEN [k |-> c.k, exc |-> c.exc, obj |-> o, other |-> NoRF]
    ELSE Bind(ResizableMappedFile_assign(c.k, o, c.obj), LAMBDA a :
      IF a.exc # "none" THEN [k |-> a.k, exc |-> a.exc, obj |-> a.obj, other |-> a.other]
      ELSE Bind(RF_dtor(a.k, a.other), LAMBDA d :
             [k |-> d.k, exc |-> d.exc, obj |-> a.obj, other |-> a.other])))

\* the bytes a caller reads through data()[0 .. size())
RF_bytes(k, o) == [i \in 1..RF_size(o) |-> Load(k, RF_data(o) + i - 1)]

\* --------------------------------------------------- ResizableMappedMemory
NoRM == [st |-> "none", m_reserved |-> NullOpt, m_size |-> 0, m_mappedSize |-> 0,
         data0 |-> nullptr, zeroed |-> FALSE]

\* address(offset) that loses the offset
address_base(m, offset) == m.m_address

\* MemoryMap::address(offset)
address(m, offset) == m.m_address + offset

\* data() handing out the last committed page
RM_data_lastpage(o) ==
  IF o.m_size # 0 THEN o.m_reserved.m_address + o.m_mappedSize - PageSize ELSE nullptr

\* capacity() in whole pages
RM_capacity_pages(o) == NumPages(o.m_reserved.m_size) * PageSize

\* ResizableMappedMemory::data / size / capacity
RM_data(o)     == IF o.m_size # 0 THEN o.m_reserved.m_address ELSE nullptr
RM_size(o)     == o.m_size
RM_capacity(o) == o.m_reserved.m_size

\* resize that takes the access away but keeps the pages (mprotect only)
ResizableMappedMemory_resize_nodiscard(k, o, size) ==
  LET ps            == pageSize
      newMappedSize == ((size + ps - 1) \div ps) * ps
      done(kk)      == [k |-> kk, exc |-> "none",
                        obj |-> [o EXCEPT !.m_mappedSize = newMappedSize, !.m_size = size]]
      fail(kk)      == [k |-> kk, exc |-> "mapping_error", obj |-> o]
  IN IF size > RM_capacity(o) THEN [k |-> k, exc |-> "bad_alloc", obj |-> o]
     ELSE IF newMappedSize > o.m_mappedSize
     THEN Bind(mprotect(k, address(o.m_reserved, o.m_mappedSize),
                        newMappedSize - o.m_mappedSize, "rw"),
               LAMBDA r : IF r.ret # 0 THEN fail(r.k) ELSE done(r.k))
     ELSE IF newMappedSize < o.m_mappedSize
     THEN Bind(mprotect(k, address(o.m_reserved, newMappedSize),
                        o.m_mappedSize - newMappedSize, "none"), LAMBDA r1 :
            IF r1.ret # 0 THEN fail(r1.k) ELSE done(r1.k))
     ELSE done(k)

\* resize that calls mprotect whether or not the committed length changes
ResizableMappedMemory_resize_always(k, o, size) ==
  LET ps            == pageSize
      newMappedSize == ((size + ps - 1) \div ps) * ps
      done(kk)      == [k |-> kk, exc |-> "none",
                        obj |-> [o EXCEPT !.m_mappedSize = newMappedSize, !.m_size = size]]
      fail(kk)      == [k |-> kk, exc |-> "mapping_error", obj |-> o]
  IN IF size > RM_capacity(o) THEN [k |-> k, exc |-> "bad_alloc", obj |-> o]
     ELSE IF newMappedSize >= o.m_mappedSize
     THEN Bind(mprotect(k, address(o.m_reserved, 0), newMappedSize, "rw"),
               LAMBDA r : IF r.ret # 0 THEN fail(r.k) ELSE done(r.k))
     ELSE Bind(mprotect(k, address(o.m_reserved, newMappedSize),
                        o.m_mappedSize - newMappedSize, "none"), LAMBDA r1 :
            IF r1.ret # 0 THEN fail(r1.k)
            ELSE Bind(madvise(r1.k, address(o.m_reserved, newMappedSize),
                              o.m_mappedSize - newMappedSize), LAMBDA r2 :
                   IF r2.ret # 0 THEN fail(r2.k) ELSE done(r2.k)))

\* resize that leaves the released pages accessible (madvise only)
ResizableMappedMemory_resize_noprotect(k, o, size) ==
  LET ps            == pageSize
      newMappedSize == ((size + ps - 1) \div ps) * ps
      done(kk)      == [k |-> kk, exc |-> "none",
                        obj |-> [o EXCEPT !.m_mappedSize = newMappedSize, !.m_size = size]]
      fail(kk)      == [k |-> kk, exc |-> "mapping_error", obj |-> o]
  IN IF size > RM_capacity(o) THEN [k |-> k, exc |-> "bad_alloc", obj |-> o]
     ELSE IF newMappedSize > o.m_mappedSize
     THEN Bind(mprotect(k, address(o.m_reserved, o.m_mappedSize),
                        newMappedSize - o.m_mappedSize, "rw"),
               LAMBDA r : IF r.ret # 0 THEN fail(r.k) ELSE done(r.k))
     ELSE IF newMappedSize < o.m_mappedSize
     THEN Bind(madvise(k, address(o.m_reserved, newMappedSize),
                       o.m_mappedSize - newMappedSize), LAMBDA r2 :
            IF r2.ret # 0 THEN fail(r2.k) ELSE done(r2.k))
     ELSE done(k)

\* ResizableMappedMemory::resize
ResizableMappedMemory_resize(k, o, size) ==
  LET ps            == pageSize
      newMappedSize == ((size + ps - 1) \div ps) * ps
      done(kk)      == [k |-> kk, exc |-> "none",
                        obj |-> [o EXCEPT !.m_mappedSize = newMappedSize, !.m_size = size]]
      fail(kk)      == [k |-> kk, exc |-> "mapping_error", obj |-> o]
  IN IF size > RM_capacity(o) THEN [k |-> k, exc |-> "bad_alloc", obj |-> o]
     ELSE IF newMappedSize > o.m_mappedSize
     THEN Bind(mprotect(k, address(o.m_reserved, o.m_mappedSize),
                        newMappedSize - o.m_mappedSize, "rw"),
               LAMBDA r : IF r.ret # 0 THEN fail(r.k) ELSE done(r.k))
     ELSE IF newMappedSize < o.m_mappedSize
     THEN Bind(mprotect(k, address(o.m_reserved, newMappedSize),
                        o.m_mappedSize - newMappedSize, "none"), LAMBDA r1 :
            IF r1.ret # 0 THEN fail(r1.k)
            ELSE Bind(madvise(r1.k, address(o.m_reserved, newMappedSize),
                              o.m_mappedSize - newMappedSize), LAMBDA r2 :
                   IF r2.ret # 0 THEN fail(r2.k) ELSE done(r2.k)))
     ELSE done(k)

\* ~ResizableMappedMemory: m_reserved is the only member with a destructor
RM_dtor(k, o) ==
  Bind(unmap(k, "none", o.m_reserved), LAMBDA r :
    [k |-> r.k, exc |-> IF r.exc # "none" THEN "terminate" ELSE "none"])

\* ResizableMappedMemory::ResizableMappedMemory(initialSize, maxSize)
ResizableMappedMemory(k, initialSize, maxSize, place) ==
  Bind(MemoryMap(k, "none", nullptr, maxSize,
                 {"MAP_PRIVATE", "MAP_ANONYMOUS", "MAP_NORESERVE"}, NoFd, place),
       LAMBDA r1 :
    IF r1.exc # "none" THEN [k |-> r1.k, exc |-> r1.exc, obj |-> NoRM]
    ELSE Bind([NoRM EXCEPT !.st = "live", !.m_reserved = r1.obj], LAMBDA o1 :
         Bind(ResizableMappedMemory_resize(r1.k, o1, initialSize), LAMBDA r2 :
           IF r2.exc # "none"
           THEN Bind(RM_dtor(r2.k, r2.obj), LAMBDA d :
                  [k |-> d.k, exc |-> IF d.exc # "none" THEN "terminate" ELSE r2.exc,
                   obj |-> NoRM])
           ELSE r2)))

\* ResizableMappedMemory::operator=(ResizableMappedMemory&&) = default:
\* m_reserved, m_size, m_mappedSize
ResizableMappedMemory_assign(k, o, other) ==
  Bind(MemoryMap_assign(k, "none", o.m_reserved, other.m_reserved), LAMBDA r :
    IF r.exc # "none" THEN [k |-> r.k, exc |-> "terminate", obj |-> o, other |-> other]
    ELSE [k |-> r.k, exc |-> "none",
          obj   |-> [o EXCEPT !.m_reserved = r.obj, !.m_size = other.m_size,
                              !.m_mappedSize = other.m_mappedSize],
          other |-> [other EXCEPT !.m_reserved = MovedFrom(@)]])

\* ResizableMappedMemory(ResizableMappedMemory&&) = default: m_size and
\* m_mappedSize are copied and stay in the source
ResizableMappedMemory_move(o) ==
  [obj   |-> [o EXCEPT !.m_reserved = MemoryMap_move(@).obj],
   other |-> [o EXCEPT !.m_reserved = MemoryMap_move(@).other]]

\* the statements  resizable_memory moved(std::move(memory));  followed by
\* the end of the scope of memory
RM_move_construct(k, o) ==
  Bind(ResizableMappedMemory_move(o), LAMBDA mv :
    Bind(RM_dtor(k, mv.other), LAMBDA d :
      [k |-> d.k, exc |-> d.exc, obj |-> mv.obj, other |-> mv.other]))

\* the statement  memory = resizable_memory(initialSize, maxSize);
RM_assign_temporary(k, o, initialSize, maxSize, place) ==
  Bind(ResizableMappedMemory(k, initialSize, maxSize, place), LAMBDA c :
    IF c.exc # "none" THEN [k |-> c.k, exc |-> c.exc, obj |-> o, other |-> NoRM]
    ELSE Bind(ResizableMappedMemory_assign(c.k, o, c.obj), LAMBDA a :
      IF a.exc # "none" THEN [k |-> a.k, exc |-> a.exc, obj |-> a.obj, other |-> a.other]
      ELSE Bind(RM_dtor(a.k, a.other), LAMBDA d :
             [k |-> d.k, exc |-> d.exc, obj |-> a.obj, other |-> a.other])))

RM_bytes(k, o) == [i \in 1..RM_size(o) |-> Load(k, RM_data(o) + i - 1)]

\* -------------------------------------------------------------- MappedFile
\* writable: the template argument; mapFlags: the constructor's second argument
NoMF == [st |-> "none", writable |-> FALSE, mapFlags |-> {}, m_file |-> NoFd,
         m_mapped |-> NullOpt]

\* the default value of the constructor's mapFlags argument
DefaultMapFlags == {"MAP_PRIVATE"}

\* MappedFile::MapMemoryProtection
MapMemoryProtection(writable) == IF writable THEN "rw" ELSE "r"

\* MappedFile::data / size
MF_data(o) == o.m_mapped.m_address
MF_size(o) == o.m_mapped.m_size

\* constructor that skips the mapping of an empty file
MappedFile_skipempty(k, writable, mapFlags, place) ==
  Bind(open(k, {IF writable THEN "O_RDWR" ELSE "O_RDONLY"}), LAMBDA r1 :
    IF r1.ret = -1 THEN [k |-> r1.k, exc |-> "mapped_file_error", obj |-> NoMF]
    ELSE Bind(FileDescriptor_size(r1.k, r1.ret), LAMBDA sz :
         Bind(IF sz.exc # "none" THEN [k |-> sz.k, exc |-> sz.exc, obj |-> NullOpt]
              ELSE IF sz.ret = 0
              THEN [k |-> sz.k, exc |-> "none", obj |-> [NullOpt EXCEPT !.has = TRUE]]
              ELSE MemoryMap(sz.k, MapMemoryProtection(writable), nullptr, sz.ret, mapFlags,
                             r1.ret, place), LAMBDA r2 :
           IF r2.exc # "none"
           THEN [k |-> FileDescriptor_dtor(r2.k, r1.ret), exc |-> r2.exc, obj |-> NoMF]
           ELSE [k |-> r2.k, exc |-> "none",
                 obj |-> [st |-> "live", writable |-> writable, mapFlags |-> mapFlags,
                          m_file |-> r1.ret, m_mapped |-> r2.obj]])))

\* MappedFile::MappedFile(path, mapFlags)
MappedFile(k, writable, mapFlags, place) ==
  Bind(open(k, {IF writable THEN "O_RDWR" ELSE "O_RDONLY"}), LAMBDA r1 :
    IF r1.ret = -1 THEN [k |-> r1.k, exc |-> "mapped_file_error", obj |-> NoMF]
    ELSE Bind(FileDescriptor_size(r1.k, r1.ret), LAMBDA sz :
         Bind(IF sz.exc # "none" THEN [k |-> sz.k, exc |-> sz.exc, obj |-> NullOpt]
              ELSE MemoryMap(sz.k, MapMemoryProtection(writable), nullptr, sz.ret, mapFlags,
                             r1.ret, place), LAMBDA r2 :
           IF r2.exc # "none"
           THEN [k |-> FileDescriptor_dtor(r2.k, r1.ret), exc |-> r2.exc, obj |-> NoMF]
           ELSE [k |-> r2.k, exc |-> "none",
                 obj |-> [st |-> "live", writable |-> writable, mapFlags |-> mapFlags,
                          m_file |-> r1.ret, m_mapped |-> r2.obj]])))

\* ~MappedFile: m_mapped, then m_file
MF_dtor(k, o) ==
  Bind(unmap(k, MapMemoryProtection(o.writable), o.m_mapped), LAMBDA r1 :
    IF r1.exc # "none" THEN [k |-> r1.k, exc |-> "terminate"]
    ELSE [k |-> FileDescriptor_dtor(r1.k, o.m_file), exc |-> "none"])

MF_bytes(k, o) == [i \in 1..MF_size(o) |-> Load(k, MF_data(o) + i - 1)]

\* ========================================================= Windows back-end
\* (src/include/decodeless/detail/mappedfile_windows.hpp, lines 1-522)
\* The kernel keeps, next to the open file handles (fds), the section
\* objects (secs): handle, size in bytes, page protection. A page of a view
\* carries the handle of its section; a reserved page of a view that lies
\* past the end of the section has protection "none" until the section is
\* extended over it.
INVALID_HANDLE_VALUE == -1

NewHandle(k) ==
  CHOOSE n \in 3..(3 + Cardinality(k.fds) + Cardinality(k.secs)) :
    n \notin k.fds /\ \A s \in k.secs : s.h # n
IsSection(k, h) == \E s \in k.secs : s.h = h
SectionOf(k, h) == CHOOSE s \in k.secs : s.h = h
Extended(b, size) == [i \in 1..(IF size > Len(b) THEN size ELSE Len(b)) |->
                        IF i <= Len(b) THEN b[i] ELSE 0]
PageProtection(protect) == IF protect = "PAGE_READWRITE" THEN "rw" ELSE "r"

\* CreateFileW on the one path; OPEN_ALWAYS creates a missing file
CreateFileW(k, dwDesiredAccess, dwCreationDisposition) ==
  LET k1 == Log(k, <<"CreateFileW", dwDesiredAccess, dwCreationDisposition>>)
      h  == NewHandle(k)
  IN IF Fails(k) \/ (~k.disk.exists /\ dwCreationDisposition = "OPEN_EXISTING")
     THEN [k |-> k1, ret |-> INVALID_HANDLE_VALUE]
     ELSE [k |-> [k1 EXCEPT !.fds = @ \cup {h},
                            !.disk = IF k.disk.exists THEN @
                                     ELSE [exists |-> TRUE, bytes |-> <<>>]],
           ret |-> h]

\* CloseHandle: of a file or of a section. A view of a closed section stays
\* mapped, but the section can no longer be extended through the handle.
CloseHandle(k, h) ==
  LET k1 == Log(k, <<"CloseHandle", h>>)
  IN [k1 EXCEPT !.fds = @ \ {h},
                !.secs = {s \in @ : s.h # h},
                !.vm = [p \in Pages |-> IF h > 0 /\ k1.vm[p].sec = h
                                        THEN [k1.vm[p] EXCEPT !.sec = 0] ELSE k1.vm[p]]]

\* GetFileSizeEx
GetFileSizeEx(k, h) ==
  LET k1 == Log(k, <<"GetFileSizeEx", h>>)
  IN IF Fails(k) \/ h \notin k.fds THEN [k |-> k1, ret |-> FALSE, QuadPart |-> 0]
     ELSE [k |-> k1, ret |-> TRUE, QuadPart |-> Len(k.disk.bytes)]

\* NtCreateSection on a file: a MaximumSize of 0 stands for the length of
\* the file, and a section of an empty file is refused; a writable section
\* longer than the file extends the file
NtCreateSection(k, MaximumSize, SectionPageProtection, FileHandle) ==
  LET k1   == Log(k, <<"NtCreateSection", MaximumSize>>)
      b    == k.disk.bytes
      size == IF MaximumSize = 0 THEN Len(b) ELSE MaximumSize
      h    == NewHandle(k)
  IN IF \/ Fails(k) \/ FileHandle \notin k.fds \/ size = 0
        \/ size > Len(b) /\ SectionPageProtection # "PAGE_READWRITE"
     THEN [k |-> k1, status |-> "STATUS_UNSUCCESSFUL", ret |-> INVALID_HANDLE_VALUE]
     ELSE [k |-> [k1 EXCEPT !.secs = @ \cup {[h |-> h, size |-> size,
                                              prot |-> PageProtection(SectionPageProtection)]},
                            !.disk.bytes = Extended(b, size)],
           status |-> "STATUS_SUCCESS", ret |-> h]

\* CreateFileMappingW: NtCreateSection by its Win32 name; NULL (0) on failure
CreateFileMappingW(k, hFile, flProtect, maximumSize) ==
  LET k1   == Log(k, <<"CreateFileMappingW", flProtect, maximumSize>>)
      b    == k.disk.bytes
      size == IF maximumSize = 0 THEN Len(b) ELSE maximumSize
      h    == NewHandle(k)
  IN IF \/ Fails(k) \/ hFile \notin k.fds \/ size = 0
        \/ size > Len(b) /\ flProtect # "PAGE_READWRITE"
     THEN [k |-> k1, ret |-> nullptr]
     ELSE [k |-> [k1 EXCEPT !.secs = @ \cup {[h |-> h, size |-> size,
                                              prot |-> PageProtection(flProtect)]},
                            !.disk.bytes = Extended(b, size)],
           ret |-> h]

\* the pages of a view of section s installed at base over length bytes
ViewPages(k, s, base, length, prot) ==
  [p \in Pages |->
     IF p \in Range(base, length)
     THEN [k |-> "file",
           prot |-> IF (p - PageOf(base)) * PageSize < s.size THEN prot ELSE "none",
           shared |-> TRUE, fpg |-> p - PageOf(base), data |-> ZeroPage,
           view |-> <<base, length>>, sec |-> s.h]
     ELSE k.vm[p]]

\* NtMapViewOfSection from offset 0 at an address of the kernel's choice
\* (place). A ViewSize of 0 stands for the whole section; only a MEM_RESERVE
\* view may be longer than its section.
NtMapViewOfSection(k, SectionHandle, ViewSize, AllocationType, Win32Protect, place) ==
  LET k1  == Log(k, <<"NtMapViewOfSection", SectionHandle, ViewSize>>)
      s   == SectionOf(k, SectionHandle)
      len == IF ViewSize = 0 THEN s.size ELSE ViewSize
  IN IF \/ Fails(k) \/ ~IsSection(k, SectionHandle)
        \/ place \notin Placements(k, len)
        \/ len > s.size /\ AllocationType # "MEM_RESERVE"
     THEN [k |-> k1, status |-> "STATUS_UNSUCCESSFUL", ret |-> nullptr]
     ELSE [k |-> [k1 EXCEPT !.vm = ViewPages(k1, s, place, len, PageProtection(Win32Protect))],
           status |-> "STATUS_SUCCESS", ret |-> place]

\* MapViewOfFileEx of the whole mapping object (offset 0, bytesToMap 0)
MapViewOfFileEx(k, hFileMappingObject, dwDesiredAccess, place) ==
  LET k1 == Log(k, <<"MapViewOfFileEx", hFileMappingObject, dwDesiredAccess>>)
      s  == SectionOf(k, hFileMappingObject)
  IN IF \/ Fails(k) \/ ~IsSection(k, hFileMappingObject)
        \/ place \notin Placements(k, s.size)
        \/ dwDesiredAccess = "FILE_MAP_WRITE" /\ s.prot # "rw"
     THEN [k |-> k1, ret |-> nullptr]
     ELSE [k |-> [k1 EXCEPT !.vm = ViewPages(k1, s, place, s.size,
                                     IF dwDesiredAccess = "FILE_MAP_WRITE" THEN "rw" ELSE "r")],
           ret |-> place]

\* NtExtendSection: the file grows with the section and the reserved pages
\* of the section's views that the section now covers are committed; a
\* NewSectionSize that is not larger leaves the section as it is
NtExtendSection(k, SectionHandle, NewSectionSize) ==
  LET k1 == Log(k, <<"NtExtendSection", SectionHandle, NewSectionSize>>)
      s  == SectionOf(k, SectionHandle)
      commit(e) == IF e.sec = SectionHandle /\ e.fpg * PageSize < NewSectionSize
                   THEN [e EXCEPT !.prot = IF @ = "none" THEN s.prot ELSE @] ELSE e
  IN IF Fails(k) \/ ~IsSection(k, SectionHandle)
     THEN [k |-> k1, status |-> "STATUS_UNSUCCESSFUL"]
     ELSE IF NewSectionSize <= s.size THEN [k |-> k1, status |-> "STATUS_SUCCESS"]
     ELSE [k |-> [k1 EXCEPT !.secs = (@ \ {s}) \cup {[s EXCEPT !.size = NewSectionSize]},
                            !.disk.bytes = Extended(@, NewSectionSize),
                            !.vm = [p \in Pages |-> commit(k1.vm[p])]],
           status |-> "STATUS_SUCCESS"]

\* the pages of the view that starts at BaseAddress
ViewAt(k, BaseAddress) ==
  {p \in Pages : k.vm[p].k = "file" /\ k.vm[p].view[1] = BaseAddress
                 /\ BaseAddress # nullptr}

\* NtUnmapViewOfSection
NtUnmapViewOfSection(k, BaseAddress) ==
  LET k1 == Log(k, <<"NtUnmapViewOfSection", BaseAddress>>)
  IN IF Fails(k) \/ ViewAt(k, BaseAddress) = {}
     THEN [k |-> k1, status |-> "STATUS_UNSUCCESSFUL"]
     ELSE [k |-> [k1 EXCEPT !.vm = [p \in Pages |->
                     IF p \in ViewAt(k, BaseAddress) THEN FreePage ELSE k1.vm[p]]],
           status |-> "STATUS_SUCCESS"]

\* UnmapViewOfFile
UnmapViewOfFile(k, lpBaseAddress) ==
  LET k1 == Log(k, <<"UnmapViewOfFile", lpBaseAddress>>)
  IN IF Fails(k) \/ ViewAt(k, lpBaseAddress) = {}
     THEN [k |-> k1, ret |-> FALSE]
     ELSE [k |-> [k1 EXCEPT !.vm = [p \in Pages |->
                     IF p \in ViewAt(k, lpBaseAddress) THEN FreePage ELSE k1.vm[p]]],
           ret |-> TRUE]

\* ------------------------------------------------- Handle and its subclasses
\* Handle::operator bool
Handle_bool(h) == h # INVALID_HANDLE_VALUE

\* Handle::~Handle
Handle_dtor(k, h) == IF h # INVALID_HANDLE_VALUE THEN CloseHandle(k, h) ELSE k

\* FileHandle::FileHandle
FileHandle(k, dwDesiredAccess, dwCreationDisposition) ==
  Bind(CreateFileW(k, dwDesiredAccess, dwCreationDisposition), LAMBDA r :
    [k |-> r.k, exc |-> IF ~Handle_bool(r.ret) THEN "mapped_file_error" ELSE "none",
     m_handle |-> r.ret])

\* FileHandle::size
FileHandle_size(k, h) ==
  Bind(GetFileSizeEx(k, h), LAMBDA r :
    [k |-> r.k, exc |-> IF ~r.ret THEN "mapping_error" ELSE "none", ret |-> r.QuadPart])

\* FileMappingHandle::FileMappingHandle
FileMappingHandle(k, file, protect, maximumSize) ==
  Bind(CreateFileMappingW(k, file, protect, maximumSize), LAMBDA r :
    [k |-> r.k, exc |-> IF ~Handle_bool(r.ret) THEN "mapping_error" ELSE "none",
     m_handle |-> r.ret])

\* FileMappingView::FileMappingView
FileMappingView(k, fileMapping, desiredAccess, place) ==
  Bind(MapViewOfFileEx(k, fileMapping, desiredAccess, place), LAMBDA r :
    [k |-> r.k, exc |-> IF r.ret = nullptr THEN "mapping_error" ELSE "none",
     m_address |-> r.ret])

\* FileMappingView::~FileMappingView
FileMappingView_dtor(k, m_address) == UnmapViewOfFile(k, m_address).k

\* ------------------------------------------------- Section and SectionView
NoSection     == [has |-> FALSE, m_handle |-> INVALID_HANDLE_VALUE, m_size |-> 0]
NoSectionView == [has |-> FALSE, m_address |-> nullptr]

\* Section::Section and Section::createSection
Section(k, MaximumSize, FileHandle_) ==
  Bind(NtCreateSection(k, MaximumSize, "PAGE_READWRITE", FileHandle_), LAMBDA r :
    [k |-> r.k, exc |-> IF r.status # "STATUS_SUCCESS" THEN "mapping_error" ELSE "none",
     obj |-> [has |-> TRUE, m_handle |-> r.ret, m_size |-> MaximumSize]])

\* Section::extend
Section_extend(k, s, NewSectionSize) ==
  Bind(NtExtendSection(k, s.m_handle, NewSectionSize), LAMBDA r :
    IF r.status # "STATUS_SUCCESS" THEN [k |-> r.k, exc |-> "mapping_error", obj |-> s]
    ELSE [k |-> r.k, exc |-> "none", obj |-> [s EXCEPT !.m_size = NewSectionSize]])

\* SectionView::SectionView and SectionView::mapViewOfSection
SectionView(k, s, ViewSize, AllocationType, place) ==
  Bind(NtMapViewOfSection(k, s.m_handle, ViewSize, AllocationType, "PAGE_READWRITE", place),
       LAMBDA r :
    [k |-> r.k, exc |-> IF r.status # "STATUS_SUCCESS" THEN "mapping_error" ELSE "none",
     obj |-> [has |-> TRUE, m_address |-> r.ret]])

\* SectionView::unmap
SectionView_unmap(k, v) ==
  Bind(NtUnmapViewOfSection(k, v.m_address), LAMBDA r :
    [k |-> r.k, exc |-> IF r.status # "STATUS_SUCCESS" THEN "mapping_error" ELSE "none"])

\* SectionView::~SectionView, for an engaged optional
SectionView_dtor(k, v) ==
  IF v.has /\ v.m_address # nullptr THEN SectionView_unmap(k, v)
  ELSE [k |-> k, exc |-> "none"]

\* ------------------------------------------- ResizableMappedFile (Windows)
\* resizes, data1: how many resize calls have succeeded (2: two or more),
\* and the data() the first of them left
NoWRF == [st |-> "none", m_capacity |-> 0, m_file |-> INVALID_HANDLE_VALUE,
          m_section |-> NoSection, m_view |-> NoSectionView,
          resizes |-> 0, data1 |-> nullptr]

\* ResizableMappedFile::data / size / capacity
Win_RF_data(o)     == IF o.m_view.has THEN o.m_view.m_address ELSE nullptr
Win_RF_size(o)     == IF o.m_section.has THEN o.m_section.m_size ELSE 0
Win_RF_capacity(o) == o.m_capacity

\* destruction of the members in reverse order of declaration:
\* m_view, m_section, m_file
Win_RF_dtor(k, o) ==
  Bind(SectionView_dtor(k, o.m_view), LAMBDA r1 :
    IF r1.exc # "none" THEN [k |-> r1.k, exc |-> "terminate"]
    ELSE [k   |-> Handle_dtor(IF o.m_section.has THEN Handle_dtor(r1.k, o.m_section.m_handle)
                              ELSE r1.k, o.m_file),
          exc |-> "none"])

\* ResizableMappedFile::resize
Win_ResizableMappedFile_resize(k, o, size, place) ==
  IF size > o.m_capacity THEN [k |-> k, exc |-> "bad_alloc", obj |-> o]
  ELSE IF o.m_section.has
  THEN Bind(Section_extend(k, o.m_section, size), LAMBDA r :
         [k |-> r.k, exc |-> r.exc, obj |-> [o EXCEPT !.m_section = r.obj]])
  ELSE Bind(Section(k, size, o.m_file), LAMBDA r1 :
       IF r1.exc # "none" THEN [k |-> r1.k, exc |-> r1.exc, obj |-> o]
       ELSE Bind([o EXCEPT !.m_section = r1.obj], LAMBDA o1 :
            Bind(SectionView(r1.k, r1.obj, o.m_capacity, "MEM_RESERVE", place), LAMBDA r2 :
              IF r2.exc # "none" THEN [k |-> r2.k, exc |-> r2.exc, obj |-> o1]
              ELSE [k |-> r2.k, exc |-> "none", obj |-> [o1 EXCEPT !.m_view = r2.obj]])))

\* ResizableMappedFile::ResizableMappedFile(path, maxSize)
Win_ResizableMappedFile(k, maxSize, place) ==
  LET unwind(kk, oo, e) ==
        Bind(Win_RF_dtor(kk, oo), LAMBDA d :
          [k |-> d.k, exc |-> IF d.exc # "none" THEN "terminate" ELSE e, obj |-> NoWRF])
  IN Bind(FileHandle(k, {"GENERIC_READ", "GENERIC_WRITE"}, "OPEN_ALWAYS"), LAMBDA r1 :
     IF r1.exc # "none" THEN [k |-> r1.k, exc |-> r1.exc, obj |-> NoWRF]
     ELSE Bind([NoWRF EXCEPT !.st = "live", !.m_capacity = maxSize, !.m_file = r1.m_handle],
               LAMBDA o1 :
          Bind(FileHandle_size(r1.k, r1.m_handle), LAMBDA sz :
          IF sz.exc # "none" THEN unwind(sz.k, o1, sz.exc)
          ELSE IF sz.ret = 0 THEN [k |-> sz.k, exc |-> "none", obj |-> o1]
          ELSE Bind(Win_ResizableMappedFile_resize(sz.k, o1, sz.ret, place), LAMBDA r2 :
          IF r2.exc # "none" THEN unwind(r2.k, r2.obj, r2.exc)
          ELSE r2))))

\* -------------------------------------------------- MappedFile (Windows)
NoWMF == [st |-> "none", writable |-> FALSE, m_file |-> INVALID_HANDLE_VALUE, m_size |-> 0,
          m_mapping |-> INVALID_HANDLE_VALUE, m_rawView |-> nullptr]

\* MappedFile::data / size
Win_MF_data(o) == o.m_rawView
Win_MF_size(o) == o.m_size

\* MappedFile::MappedFile(path); a member whose constructor throws leaves
\* the members before it to their destructors
Win_MappedFile(k, writable, place) ==
  Bind(FileHandle(k, {"GENERIC_READ"} \cup (IF writable THEN {"GENERIC_WRITE"} ELSE {}),
                  "OPEN_EXISTING"), LAMBDA r1 :
  IF r1.exc # "none" THEN [k |-> r1.k, exc |-> r1.exc, obj |-> NoWMF]
  ELSE Bind(FileHandle_size(r1.k, r1.m_handle), LAMBDA sz :
  IF sz.exc # "none"
  THEN [k |-> Handle_dtor(sz.k, r1.m_handle), exc |-> sz.exc, obj |-> NoWMF]
  ELSE Bind(FileMappingHandle(sz.k, r1.m_handle, "PAGE_READONLY", sz.ret), LAMBDA r2 :
  IF r2.exc # "none"
  THEN [k |-> Handle_dtor(r2.k, r1.m_handle), exc |-> r2.exc, obj |-> NoWMF]
  ELSE Bind(FileMappingView(r2.k, r2.m_handle, "FILE_MAP_READ", place), LAMBDA r3 :
  IF r3.exc # "none"
  THEN [k |-> Handle_dtor(Handle_dtor(r3.k, r2.m_handle), r1.m_handle), exc |-> r3.exc,
        obj |-> NoWMF]
  ELSE [k |-> r3.k, exc |-> "none",
        obj |-> [st |-> "live", writable |-> writable, m_file |-> r1.m_handle,
                 m_size |-> sz.ret, m_mapping |-> r2.m_handle,
                 m_rawView |-> r3.m_address]]))))

\* ~MappedFile: m_rawView, m_mapping, m_file
Win_MF_dtor(k, o) ==
  Handle_dtor(Handle_dtor(FileMappingView_dtor(k, o.m_rawView), o.m_mapping), o.m_file)

\* Handle::operator=(Handle&&): the handle held before is closed
Handle_assign(k, m_handle, other) ==
  IF m_handle # INVALID_HANDLE_VALUE THEN CloseHandle(k, m_handle) ELSE k

\* FileMappingView::operator=(FileMappingView&&): the address is taken over
\* and nullptr is left in the source; no system call is made
FileMappingView_assign(m_address, other) == [m_address |-> other, other |-> nullptr]

\* MappedFile::operator=(MappedFile&&), implicitly defined: the members are
\* move assigned in the order of their declaration, m_file, m_size,
\* m_mapping, m_rawView. obj is the destination, other the moved-from source.
Win_MappedFile_assign(k, o, other) ==
  Bind(Handle_assign(k, o.m_file, other.m_file), LAMBDA k1 :
  Bind(Handle_assign(k1, o.m_mapping, other.m_mapping), LAMBDA k2 :
  Bind(FileMappingView_assign(o.m_rawView, other.m_rawView), LAMBDA v :
    [k     |-> k2,
     exc   |-> "none",
     obj   |-> [o EXCEPT !.m_file = other.m_file, !.m_size = other.m_size,
                         !.m_mapping = other.m_mapping, !.m_rawView = v.m_address],
     other |-> [other EXCEPT !.m_file = INVALID_HANDLE_VALUE,
                             !.m_mapping = INVALID_HANDLE_VALUE,
                             !.m_rawView = v.other]])))

\* the statement  mapped = file(path);  or  mapped = writable_file(path);
\* a temporary is constructed, moved into the object and destroyed
Win_MF_assign_temporary(k, o, place) ==
  Bind(Win_MappedFile(k, o.writable, place), LAMBDA c :
    IF c.exc # "none" THEN [k |-> c.k, exc |-> c.exc, obj |-> o]
    ELSE Bind(Win_MappedFile_assign(c.k, o, c.obj), LAMBDA a :
           [k |-> Win_MF_dtor(a.k, a.other), exc |-> "none", obj |-> a.obj]))

\* ------------------------------------------------------------ state machine
NoOS == [vm |-> [p \in Pages |-> FreePage], disk |-> NoFile, fds |-> {}, secs |-> {},
         log |-> <<>>,
         hist |-> <<>>, fault |-> 0, failed |-> FALSE]
NoDrop == [size |-> 0, bytes |-> <<>>, grown |-> FALSE]
NoPre == [os |-> NoOS, rf |-> NoRF, rm |-> NoRM, mf |-> NoMF, wrf |-> NoWRF, wmf |-> NoWMF,
          moved |-> FALSE]
NoSrc == [data |-> nullptr, size |-> 0]
NoEv == [cls |-> "none", op |-> "init", n |-> 0, cap |-> 0, exc |-> "none", pre |-> NoPre,
         dropped |-> NoDrop, src |-> NoSrc, moved |-> FALSE]

Fresh(k) == [k EXCEPT !.log = <<>>, !.hist = <<>>, !.fault = 0, !.failed = FALSE]

\* the kernel an operation starts on when the system fails its f-th system
\* call (f = 0: none)
Faulty(k, f) == [Fresh(k) EXCEPT !.fault = f]

\* the kernel an operation leaves behind. h: the history of the operation is
\* kept in full; otherwise only the names of its system calls are.
Settled(k, h) ==
  IF h THEN [k EXCEPT !.fault = 0]
  ELSE [k EXCEPT !.fault = 0, !.hist = <<>>,
                 !.log = [i \in DOMAIN k.log |-> <<k.log[i][1]>>]]


\* an exception that left a noexcept function has ended the program
Alive == ev.exc # "terminate"
Pre == [os |-> Fresh(os), rf |-> rf, rm |-> rm, mf |-> mf, wrf |-> wrf, wmf |-> wmf,
        moved |-> ev.moved]

\* the state an operation started from, when the history is kept
Before(h) == IF h THEN Pre ELSE NoPre

\* the outcome of an operation: the class and name of the operation, its
\* argument and exception, the state it started from, and the size and bytes
\* the last dropped ResizableMappedFile held (grown: it was constructed on an
\* empty file, so its view came from a resize). cap is the maxSize argument
\* of resizable_memory(initialSize, maxSize), whose n is initialSize. src is
\* what data() and size() return on the object a move has just taken from.
\* moved: the view the ResizableMappedFile holds has been through a move
\* since it was mapped.
Ev(cls, op, n, exc, pre, dropped) ==
  [cls |-> cls, op |-> op, n |-> n, cap |-> 0, exc |-> exc, pre |-> pre, dropped |-> dropped,
   src |-> NoSrc, moved |-> FALSE]

\* what the source of a move reports afterwards
MovedFromFile(o)   == [data |-> RF_data(o), size |-> RF_size(o)]
MovedFromMemory(o) == [data |-> RM_data(o), size |-> RM_size(o)]

\* history kept with an object: by its constructor, by a resize
Constructed(o, d) == IF o.st = "live" THEN [o EXCEPT !.data0 = d] ELSE o
Resized(o, n, exc) ==
  IF exc = "none" THEN [o EXCEPT !.zeroed = @ \/ n = 0] ELSE o

\* history kept with a ResizableMappedFile by a resize on a system that may
\* fail (h false): what the resizes before did
Retried(o, exc, h) ==
  IF h THEN o
  ELSE [o EXCEPT !.window =
          IF exc = "mapping_error" THEN "failed"
          ELSE IF exc = "none"
               THEN (IF @ = "failed" THEN "recovered"
                     ELSE IF @ = "rejected" THEN "accepted" ELSE "no")
          ELSE IF exc = "bad_alloc" THEN (IF @ = "failed" THEN "failed" ELSE "rejected")
          ELSE "no"]

Places(k, len) == IF Placements(k, len) = {} THEN {nullptr} ELSE Placements(k, len)

\* the program holds one mapping object at a time
NoObject == /\ rf.st = "none" /\ rm.st = "none" /\ mf.st = "none"
            /\ wrf.st = "none" /\ wmf.st = "none"

Init ==
  /\ os = NoOS
  /\ rf = NoRF
  /\ rm = NoRM
  /\ mf = NoMF
  /\ wrf = NoWRF
  /\ wmf = NoWMF
  /\ ev = NoEv

\* resizable_file file(path, cap)
FileConstructWith(f, h) ==
  /\ Alive
  /\ NoObject
  /\ \E cap \in Caps : \E place \in Places(os, cap) :
       \E r \in {ResizableMappedFile(Faulty(os, f), cap, place)} :
          /\ os' = Settled(r.k, h)
          /\ rf' = Constructed(r.obj, RF_data(r.obj))
          /\ ev' = Ev("file", "construct", cap, r.exc, Before(h), ev.dropped)
  /\ UNCHANGED <<rm, mf, wrf, wmf>>

FileConstruct == FileConstructWith(0, TRUE)

FileConstructFault == \E f \in 0..MaxFault : FileConstructWith(f, FALSE)

\* file.resize(n)
FileResizeWith(f, h) ==
  /\ Alive
  /\ rf.st = "live"
  /\ \E n \in Sizes :
       \E r \in {ResizableMappedFile_resize(Faulty(os, f), rf, n)} :
          /\ os' = Settled(r.k, h)
          /\ rf' = Retried(Resized(r.obj, n, r.exc), r.exc, h)
          /\ ev' = [Ev("file", "resize", n, r.exc, Before(h), NoDrop)
                      EXCEPT !.moved = ev.moved /\ r.exc = "bad_alloc"]
  /\ UNCHANGED <<rm, mf, wrf, wmf>>

FileResize == FileResizeWith(0, TRUE)

FileResizeFault == \E f \in 0..MaxFault : FileResizeWith(f, FALSE)

\* static_cast<std::byte*>(file.data())[k] = b, for an offset inside size()
FileWrite ==
  /\ rf.st = "live"
  /\ \E k \in 0..(RF_size(rf) - 1) : \E b \in Bytes :
       /\ os' = Store(Fresh(os), RF_data(rf) + k, b)
       /\ ev' = Ev("file", "write", k, "none", NoPre, NoDrop)
  /\ UNCHANGED <<rf, rm, mf, wrf, wmf>>

\* history kept with an object that was assigned a new value
Assigned(o, old, exc, d) ==
  IF exc = "none" THEN [o EXCEPT !.data0 = d, !.zeroed = FALSE] ELSE old

\* file = resizable_file(path, cap)
FileAssignWith(f, h) ==
  /\ Alive
  /\ rf.st = "live"
  /\ \E cap \in Caps : \E place \in Places(os, cap) :
       \E r \in {RF_assign_temporary(Faulty(os, f), rf, cap, place)} :
          /\ os' = Settled(r.k, h)
          /\ rf' = Assigned(r.obj, rf, r.exc, RF_data(r.obj))
          /\ ev' = [Ev("file", "assign", cap, r.exc, Before(h), NoDrop)
                      EXCEPT !.src = MovedFromFile(r.other),
                             !.moved = IF r.exc = "none" THEN r.obj.m_mapped.has
                                       ELSE ev.moved]
  /\ UNCHANGED <<rm, mf, wrf, wmf>>

FileAssign == FileAssignWith(0, TRUE)

\* resizable_file moved(std::move(file)); file goes out of scope and the
\* program goes on with moved
FileMove ==
  /\ Alive
  /\ rf.st = "live"
  /\ \E r \in {RF_move_construct(Fresh(os), rf)} :
        /\ os' = Settled(r.k, TRUE)
        /\ rf' = r.obj
        /\ ev' = [Ev("file", "move", 0, r.exc, Pre, NoDrop)
                    EXCEPT !.src = MovedFromFile(r.other),
                           !.moved = r.obj.m_mapped.has]
  /\ UNCHANGED <<rm, mf, wrf, wmf>>

\* the resizable_file goes out of scope
FileDropWith(f, h) ==
  /\ Alive
  /\ rf.st = "live"
  /\ \E r \in {RF_dtor(Faulty(os, f), rf)} :
        /\ os' = Settled(r.k, h)
        /\ rf' = NoRF
        /\ ev' = Ev("file", "drop", 0, r.exc, Before(h),
                    [size |-> RF_size(rf), bytes |-> RF_bytes(os, rf),
                     grown |-> rf.data0 = nullptr /\ RF_size(rf) > 0])
  /\ UNCHANGED <<rm, mf, wrf, wmf>>

FileDrop == FileDropWith(0, TRUE)

FileDropFault == \E f \in 0..MaxFault : FileDropWith(f, FALSE)

\* resizable_memory memory(initial, cap). ResizableMappedMemory makes no
\* file system call, so it is explored from the states without a file only.
MemConstructWith(f, h) ==
  /\ Alive
  /\ NoObject /\ ~os.disk.exists
  /\ \E cap \in Caps : \E initial \in Sizes : \E place \in Places(os, cap) :
       \E r \in {ResizableMappedMemory(Faulty(os, f), initial, cap, place)} :
          /\ os' = Settled(r.k, h)
          /\ rm' = Constructed(r.obj, RM_data(r.obj))
          /\ ev' = [Ev("memory", "construct", initial, r.exc, Before(h), NoDrop)
                      EXCEPT !.cap = cap]
  /\ UNCHANGED <<rf, mf, wrf, wmf>>

MemConstruct == MemConstructWith(0, TRUE)

MemConstructFault == \E f \in 0..MaxFault : MemConstructWith(f, FALSE)

\* memory.resize(n)
MemResizeWith(f, h) ==
  /\ Alive
  /\ rm.st = "live"
  /\ \E n \in Sizes :
       \E r \in {ResizableMappedMemory_resize(Faulty(os, f), rm, n)} :
          /\ os' = Settled(r.k, h)
          /\ rm' = Resized(r.obj, n, r.exc)
          /\ ev' = Ev("memory", "resize", n, r.exc, Before(h), NoDrop)
  /\ UNCHANGED <<rf, mf, wrf, wmf>>

MemResize == MemResizeWith(0, TRUE)

MemResizeFault == \E f \in 0..MaxFault : MemResizeWith(f, FALSE)

\* static_cast<std::byte*>(memory.data())[k] = b, for an offset inside size()
MemWrite ==
  /\ rm.st = "live"
  /\ \E k \in 0..(RM_size(rm) - 1) : \E b \in Bytes :
       /\ os' = Store(Fresh(os), RM_data(rm) + k, b)
       /\ ev' = Ev("memory", "write", k, "none", NoPre, NoDrop)
  /\ UNCHANGED <<rf, rm, mf, wrf, wmf>>

\* memory = resizable_memory(initial, cap)
MemAssignWith(f, h) ==
  /\ Alive
  /\ rm.st = "live"
  /\ \E cap \in Caps : \E initial \in Sizes : \E place \in Places(os, cap) :
       \E r \in {RM_assign_temporary(Faulty(os, f), rm, initial, cap, place)} :
          /\ os' = Settled(r.k, h)
          /\ rm' = Assigned(r.obj, rm, r.exc, RM_data(r.obj))
          /\ ev' = [Ev("memory", "assign", initial, r.exc, Before(h), NoDrop)
                      EXCEPT !.src = MovedFromMemory(r.other)]
  /\ UNCHANGED <<rf, mf, wrf, wmf>>

MemAssign == MemAssignWith(0, TRUE)

\* resizable_memory moved(std::move(memory)); memory goes out of scope and
\* the program goes on with moved
MemMove ==
  /\ Alive
  /\ rm.st = "live"
  /\ \E r \in {RM_move_construct(Fresh(os), rm)} :
        /\ os' = Settled(r.k, TRUE)
        /\ rm' = r.obj
        /\ ev' = [Ev("memory", "move", 0, r.exc, Pre, NoDrop)
                    EXCEPT !.src = MovedFromMemory(r.other)]
  /\ UNCHANGED <<rf, mf, wrf, wmf>>

\* the resizable_memory goes out of scope
MemDropWith(f, h) ==
  /\ Alive
  /\ rm.st = "live"
  /\ \E r \in {RM_dtor(Faulty(os, f), rm)} :
        /\ os' = Settled(r.k, h)
        /\ rm' = NoRM
        /\ ev' = Ev("memory", "drop", 0, r.exc, Before(h), NoDrop)
  /\ UNCHANGED <<rf, mf, wrf, wmf>>

MemDrop == MemDropWith(0, TRUE)

MemDropFault == \E f \in 0..MaxFault : MemDropWith(f, FALSE)

\* file mapped(path) / writable_file mapped(path), with or without an
\* explicit mapFlags argument
MapOpenWith(f, h) ==
  /\ Alive
  /\ NoObject
  /\ \E writable \in BOOLEAN : \E mapFlags \in {{"MAP_PRIVATE"}, {"MAP_SHARED"}} :
     \E place \in Places(os, Len(os.disk.bytes)) :
       \E r \in {MappedFile(Faulty(os, f), writable, mapFlags, place)} :
          /\ os' = Settled(r.k, h)
          /\ mf' = r.obj
          /\ ev' = Ev("mapped", "construct", 0, r.exc, Before(h), NoDrop)
  /\ UNCHANGED <<rf, rm, wrf, wmf>>

MapOpen == MapOpenWith(0, TRUE)

MapOpenFault == \E f \in 0..MaxFault : MapOpenWith(f, FALSE)

\* static_cast<std::byte*>(mapped.data())[k] = b on a writable_file
MapWrite ==
  /\ mf.st = "live" /\ mf.writable
  /\ \E k \in 0..(MF_size(mf) - 1) : \E b \in Bytes :
       /\ os' = Store(Fresh(os), MF_data(mf) + k, b)
       /\ ev' = Ev("mapped", "write", k, "none", NoPre, NoDrop)
  /\ UNCHANGED <<rf, rm, mf, wrf, wmf>>

\* the file / writable_file goes out of scope
MapDropWith(f, h) ==
  /\ Alive
  /\ mf.st = "live"
  /\ \E r \in {MF_dtor(Faulty(os, f), mf)} :
        /\ os' = Settled(r.k, h)
        /\ mf' = NoMF
        /\ ev' = Ev("mapped", "drop", 0, r.exc, Before(h), NoDrop)
  /\ UNCHANGED <<rf, rm, wrf, wmf>>

MapDrop == MapDropWith(0, TRUE)

MapDropFault == \E f \in 0..MaxFault : MapDropWith(f, FALSE)

\* ------------------------------------------------------ Windows programs
\* history kept with a Windows ResizableMappedFile by a resize call that
\* returned, the constructor's own included
WinResized(o, exc) ==
  IF exc = "none" /\ o.st = "live"
  THEN [o EXCEPT !.resizes = IF @ < 2 THEN @ + 1 ELSE 2,
                 !.data1 = IF o.resizes = 0 THEN Win_RF_data(o) ELSE @]
  ELSE o

\* resizable_file file(path, cap) on Windows; the system may fail the f-th
\* system call of the operation (f = 0: none)
WinFileConstruct ==
  /\ Alive
  /\ NoObject
  /\ \E f \in 0..MaxFault : \E cap \in Caps : \E place \in Places(os, cap) :
       \E r \in {Win_ResizableMappedFile(Faulty(os, f), cap, place)} :
          /\ os' = Settled(r.k, TRUE)
          /\ wrf' = IF r.obj.m_section.has THEN WinResized(r.obj, r.exc) ELSE r.obj
          /\ ev' = Ev("winfile", "construct", cap, r.exc, Pre, NoDrop)
  /\ UNCHANGED <<rf, rm, mf, wmf>>

\* file.resize(n) on Windows
WinFileResize ==
  /\ Alive
  /\ wrf.st = "live"
  /\ \E f \in 0..MaxFault : \E n \in Sizes : \E place \in Places(os, wrf.m_capacity) :
       \E r \in {Win_ResizableMappedFile_resize(Faulty(os, f), wrf, n, place)} :
          /\ os' = Settled(r.k, TRUE)
          /\ wrf' = WinResized(r.obj, r.exc)
          /\ ev' = Ev("winfile", "resize", n, r.exc, Pre, NoDrop)
  /\ UNCHANGED <<rf, rm, mf, wmf>>

\* the Windows resizable_file goes out of scope
WinFileDrop ==
  /\ Alive
  /\ wrf.st = "live"
  /\ \E f \in 0..MaxFault :
       \E r \in {Win_RF_dtor(Faulty(os, f), wrf)} :
          /\ os' = Settled(r.k, TRUE)
          /\ wrf' = NoWRF
          /\ ev' = Ev("winfile", "drop", 0, r.exc, Pre, NoDrop)
  /\ UNCHANGED <<rf, rm, mf, wmf>>

\* file mapped(path) / writable_file mapped(path) on Windows
WinMapOpen ==
  /\ Alive
  /\ NoObject
  /\ \E f \in 0..MaxFault : \E writable \in BOOLEAN :
     \E place \in Places(os, Len(os.disk.bytes)) :
       \E r \in {Win_MappedFile(Faulty(os, f), writable, place)} :
          /\ os' = Settled(r.k, TRUE)
          /\ wmf' = r.obj
          /\ ev' = Ev("winmapped", "construct", 0, r.exc, Pre, NoDrop)
  /\ UNCHANGED <<rf, rm, mf, wrf>>

\* mapped = file(path) / mapped = writable_file(path) on Windows
WinMapAssign ==
  /\ Alive
  /\ wmf.st = "live"
  /\ \E f \in 0..MaxFault : \E place \in Places(os, Len(os.disk.bytes)) :
       \E r \in {Win_MF_assign_temporary(Faulty(os, f), wmf, place)} :
          /\ os' = Settled(r.k, TRUE)
          /\ wmf' = r.obj
          /\ ev' = Ev("winmapped", "assign", 0, r.exc, Pre, NoDrop)
  /\ UNCHANGED <<rf, rm, mf, wrf>>

\* the Windows file / writable_file goes out of scope
WinMapDrop ==
  /\ Alive
  /\ wmf.st = "live"
  /\ \E f \in 0..MaxFault :
       /\ os' = Settled(Win_MF_dtor(Faulty(os, f), wmf), TRUE)
       /\ wmf' = NoWMF
       /\ ev' = Ev("winmapped", "drop", 0, "none", Pre, NoDrop)
  /\ UNCHANGED <<rf, rm, mf, wrf>>

Next ==
  \/ FileConstruct \/ FileResize \/ FileWrite \/ FileDrop
  \/ MemConstruct \/ MemResize \/ MemWrite \/ MemDrop
  \/ MapOpen \/ MapWrite \/ MapDrop

Spec == Init /\ [][Next]_vars

\* the programs that also move-assign a temporary into a live object and
\* move-construct an object from a live one; they write no byte
NextMove ==
  \/ FileConstruct \/ FileResize \/ FileAssign \/ FileMove \/ FileDrop
  \/ MemConstruct \/ MemResize \/ MemAssign \/ MemMove \/ MemDrop
  \/ MapOpen \/ MapDrop

SpecMove == Init /\ [][NextMove]_vars

\* programs on a system that may fail one system call of an operation
\* (f = 0: none); the history of the operations is not kept
NextFault ==
  \/ FileConstructFault \/ FileResizeFault \/ FileDropFault
  \/ MemConstructFault \/ MemResizeFault \/ MemDropFault
  \/ MapOpenFault \/ MapDropFault

SpecFault == Init /\ [][NextFault]_vars

\* the programs of the Windows back-end, on a system that may fail one
\* system call of an operation
NextWin ==
  \/ WinFileConstruct \/ WinFileResize \/ WinFileDrop
  \/ WinMapOpen \/ WinMapAssign \/ WinMapDrop

SpecWin == Init /\ [][NextWin]_vars

\* memory.resize(n) on a system that may fail one system call of the
\* operation, the state the operation started from being kept
MemResizeFaultKept == \E f \in 0..MaxFault : MemResizeWith(f, TRUE)

\* the programs on a ResizableMappedMemory whose resize may meet a failing
\* mprotect or madvise
NextMemFault == MemConstruct \/ MemResizeFaultKept \/ MemDrop

SpecMemFault == Init /\ [][NextMemFault]_vars

\* ------------------------------------------------------------------ claims
FileResizeOk == ev.cls = "file" /\ ev.op = "resize" /\ ev.exc = "none"
MemResizeOk  == ev.cls = "memory" /\ ev.op = "resize" /\ ev.exc = "none"
FileConstructed == ev.cls = "file" /\ ev.op = "construct"
Min(a, b) == IF a < b THEN a ELSE b

\* C1: after every successful resize(n) of a ResizableFile, data() is the
\* reservation base when n > 0 and null when n = 0; the base is the one the
\* object had before the call.
C1_DataIsReservationBase ==
  FileResizeOk =>
    /\ rf.m_reserved.m_address = ev.pre.rf.m_reserved.m_address
    /\ RF_data(rf) = IF ev.n = 0 THEN nullptr ELSE ev.pre.rf.m_reserved.m_address

\* a second or later successful resize of an object constructed on an empty
\* file, to a different non-zero size, with the pointer handed out before
\* still being data()
C1_Witness ==
  /\ FileResizeOk /\ ev.n > 0
  /\ ev.pre.rf.data0 = nullptr /\ RF_size(ev.pre.rf) > 0 /\ RF_size(ev.pre.rf) # ev.n
  /\ RF_data(rf) = RF_data(ev.pre.rf)

\* C2: resize(n) with n > capacity() fails with bad_alloc and changes
\* nothing: the object (data, size, capacity), the page table, the file and
\* the open descriptors are as before, and no system call was made.
C2_ResizeAboveCapacityIsNoOp ==
  (ev.op = "resize" /\ \/ ev.cls = "file" /\ ev.n > RF_capacity(ev.pre.rf)
                       \/ ev.cls = "memory" /\ ev.n > RM_capacity(ev.pre.rm)) =>
    /\ ev.exc = "bad_alloc"
    /\ rf = ev.pre.rf /\ rm = ev.pre.rm
    /\ os = ev.pre.os

\* a rejected resize of a ResizableFile that holds a live, written view
C2_Witness ==
  /\ ev.cls = "file" /\ ev.op = "resize" /\ ev.exc = "bad_alloc"
  /\ ev.n > RF_capacity(rf)
  /\ RF_size(rf) > 0 /\ \E i \in 1..RF_size(rf) : RF_bytes(os, rf)[i] # 0

\* C3: after a successful resize(n) of a ResizableFile the file is n bytes
\* long and size() is n.
C3_FileLengthIsSize ==
  FileResizeOk => Len(os.disk.bytes) = ev.n /\ RF_size(rf) = ev.n

\* a successful shrink to a non-zero size
C3_Witness ==
  FileResizeOk /\ ev.n > 0 /\ ev.n < RF_size(ev.pre.rf) /\ Len(os.disk.bytes) = ev.n

\* C4: a successful resize of a ResizableFile between non-zero sizes keeps
\* every byte below min(size_old, size_new) as read through data().
C4_FilePrefixPreserved ==
  (FileResizeOk /\ ev.n > 0 /\ RF_size(ev.pre.rf) > 0) =>
    \A i \in 1..Min(RF_size(ev.pre.rf), ev.n) :
      RF_bytes(os, rf)[i] = RF_bytes(ev.pre.os, ev.pre.rf)[i]

\* a resize to a different size over a prefix holding a written byte
C4_Witness ==
  /\ FileResizeOk /\ ev.n > 0 /\ RF_size(ev.pre.rf) > 0 /\ RF_size(ev.pre.rf) # ev.n
  /\ \E i \in 1..Min(RF_size(ev.pre.rf), ev.n) :
       RF_bytes(ev.pre.os, ev.pre.rf)[i] # 0 /\ RF_bytes(os, rf)[i] # 0

LongerThanCapacity ==
  FileConstructed /\ ev.pre.os.disk.exists /\ Len(ev.pre.os.disk.bytes) > ev.n

\* C5 as stated: constructing a ResizableFile on an existing file longer
\* than the capacity fails with bad_alloc and leaves the file as it was.
C5_Original ==
  LongerThanCapacity => ev.exc = "bad_alloc" /\ os.disk = ev.pre.os.disk

\* C5 amended: with a capacity of at least 1 the construction fails with
\* bad_alloc; with capacity 0 the zero-length reservation fails first with a
\* mapping_error; either way no object results, the file is as it was, and
\* the descriptor and the reservation are released.
C5_LongerFileRejected ==
  LongerThanCapacity =>
    /\ ev.exc = IF ev.n = 0 THEN "mapping_error" ELSE "bad_alloc"
    /\ rf.st = "none"
    /\ os.disk = ev.pre.os.disk
    /\ os.fds = ev.pre.os.fds /\ os.vm = ev.pre.os.vm

\* a non-zero capacity rejected against a longer file holding written bytes
C5_Witness ==
  /\ LongerThanCapacity /\ ev.n > 0 /\ ev.exc = "bad_alloc"
  /\ \E i \in 1..Len(os.disk.bytes) : os.disk.bytes[i] # 0

C7_ReopenRoundTrip ==
  (FileConstructed /\ ev.dropped.size > 0 /\ ev.n >= ev.dropped.size) =>
    /\ ev.exc = "none"
    /\ RF_size(rf) = ev.dropped.size
    /\ RF_data(rf) = rf.m_reserved.m_address /\ RF_data(rf) # nullptr
    /\ RF_bytes(os, rf) = ev.dropped.bytes

\* reopening, with a larger capacity, a file that was resized and written
C7_Witness ==
  /\ FileConstructed /\ ev.exc = "none" /\ ev.dropped.grown
  /\ ev.dropped.size > 0 /\ ev.n > ev.dropped.size
  /\ \E i \in 1..RF_size(rf) : RF_bytes(os, rf)[i] # 0

\* the object the last operation acted on, before and after
ResizeOkNoZero ==
  \/ FileResizeOk /\ ~rf.zeroed
  \/ MemResizeOk /\ ~rm.zeroed
DataNow  == IF ev.cls = "file" THEN RF_data(rf) ELSE RM_data(rm)
DataZero == IF ev.cls = "file" THEN rf.data0 ELSE rm.data0

\* C8 as stated: after every successful resize with no resize(0) so far,
\* data() equals the value it returned before the first successful resize.
C8_Original ==
  ResizeOkNoZero => DataNow = DataZero

\* C8 amended: the same for an object whose data() was non-null before the
\* first resize (built on a non-empty file, or with a non-zero initial
\* size); an object built empty returns null before and the reservation base
\* after.
C8_StableFromNonNullStart ==
  ResizeOkNoZero =>
    /\ DataZero # nullptr => DataNow = DataZero
    /\ DataZero = nullptr =>
         DataNow = IF ev.cls = "file" THEN rf.m_reserved.m_address
                   ELSE rm.m_reserved.m_address

\* a ResizableFile opened on a non-empty file and resized to another size
C8_Witness ==
  /\ FileResizeOk /\ ~rf.zeroed /\ rf.data0 # nullptr
  /\ RF_size(ev.pre.rf) # ev.n /\ RF_data(rf) = rf.data0

\* C9: bytes written through a writable whole-file mapping opened with the
\* default arguments are in the file once the mapping is dropped.
C9_WritableDropPersists ==
  (ev.cls = "mapped" /\ ev.op = "drop" /\ ev.pre.mf.writable
     /\ ev.pre.mf.mapFlags = DefaultMapFlags) =>
    os.disk.bytes = MF_bytes(ev.pre.os, ev.pre.mf)

EmptyFileOpened ==
  /\ ev.cls = "mapped" /\ ev.op = "construct"
  /\ ev.pre.os.disk.exists /\ Len(ev.pre.os.disk.bytes) = 0

\* C10 as stated: a whole-file mapping of an existing empty file is
\* constructed without error and has size() 0.
C10_Original ==
  EmptyFileOpened => ev.exc = "none" /\ mf.st = "live" /\ MF_size(mf) = 0

\* C10 amended: constructing a whole-file mapping, read-only or writable, on
\* an existing empty file fails with a mapping_error (the zero-length mmap
\* is rejected); no object results, the descriptor is closed, and the file
\* and the address space are as before.
C10_EmptyFileRejected ==
  EmptyFileOpened =>
    /\ ev.exc = "mapping_error" /\ mf.st = "none"
    /\ os.disk = ev.pre.os.disk /\ os.fds = ev.pre.os.fds /\ os.vm = ev.pre.os.vm

\* the failed construction, with the open and the close around the mmap
C10_Witness ==
  /\ EmptyFileOpened /\ ev.exc = "mapping_error"
  /\ Len(os.log) = 4 /\ os.log[1][1] = "open" /\ os.log[2][1] = "fstat"
  /\ os.log[3][1] = "mmap" /\ os.log[4][1] = "close"

MemConstructed == ev.cls = "memory" /\ ev.op = "construct"

\* C11: after a successful resize(n) of a ResizableMemory every byte below
\* min(size_old, n) reads through data() as it did before the call, in every
\* reachable state (so over every sequence of growing and shrinking resizes).
C11_MemoryPrefixPreserved ==
  MemResizeOk =>
    \A i \in 1..Min(RM_size(ev.pre.rm), ev.n) :
      RM_bytes(os, rm)[i] = RM_bytes(ev.pre.os, ev.pre.rm)[i]

\* a shrink that released a page, with a written byte in the prefix kept
C11_Witness ==
  /\ MemResizeOk /\ ev.n > 0 /\ ev.n < RM_size(ev.pre.rm)
  /\ rm.m_mappedSize < ev.pre.rm.m_mappedSize
  /\ \E i \in 1..ev.n : RM_bytes(os, rm)[i] # 0

\* C12: data() of a ResizableMemory is the reservation base after a
\* construction with a non-zero initial size and after every successful
\* resize(n) with n > 0, and the base is the one the object had before.
C12_MemoryDataIsBase ==
  /\ (MemConstructed /\ ev.exc = "none" /\ ev.n > 0) =>
       RM_data(rm) = rm.m_reserved.m_address /\ RM_data(rm) # nullptr
  /\ (MemResizeOk /\ ev.n > 0) =>
       /\ rm.m_reserved.m_address = ev.pre.rm.m_reserved.m_address
       /\ RM_data(rm) = ev.pre.rm.m_reserved.m_address
       /\ ev.pre.rm.m_size # 0 => RM_data(rm) = RM_data(ev.pre.rm)

\* a shrink and a growth between non-zero sizes on different page counts
C12_Witness ==
  /\ MemResizeOk /\ ev.n > 0 /\ RM_size(ev.pre.rm) > 0
  /\ rm.m_mappedSize > ev.pre.rm.m_mappedSize
  /\ RM_data(rm) = RM_data(ev.pre.rm) /\ rm.data0 = nullptr

\* C13 as stated: in every state of a live ResizableMemory,
\* size <= mapped_size <= capacity and mapped_size is a multiple of the
\* page size.
C13_Original ==
  rm.st = "live" =>
    /\ rm.m_size <= rm.m_mappedSize /\ rm.m_mappedSize <= rm.m_reserved.m_size
    /\ rm.m_mappedSize % PageSize = 0

\* C13 amended: size <= capacity, size <= mapped_size, mapped_size is a
\* multiple of the page size and at most the capacity rounded up to whole
\* pages; the accessible pages are pages of the reservation.
C13_MappedWithinReservedPages ==
  rm.st = "live" =>
    /\ rm.m_size <= rm.m_reserved.m_size
    /\ rm.m_size <= rm.m_mappedSize
    /\ rm.m_mappedSize <= NumPages(rm.m_reserved.m_size) * PageSize
    /\ rm.m_mappedSize % PageSize = 0
    /\ \A p \in Pages : os.vm[p].prot = "rw" =>
         p \in Range(rm.m_reserved.m_address, rm.m_reserved.m_size)

\* a capacity that is not a whole number of pages, fully used
C13_Witness ==
  /\ rm.st = "live" /\ rm.m_reserved.m_size % PageSize # 0
  /\ rm.m_size = rm.m_reserved.m_size /\ rm.m_mappedSize > rm.m_reserved.m_size

Resizable == ev.cls \in {"file", "memory"}
CapacityBefore == IF ev.cls = "file" THEN RF_capacity(ev.pre.rf) ELSE RM_capacity(ev.pre.rm)
CapacityNow    == IF ev.cls = "file" THEN RF_capacity(rf) ELSE RM_capacity(rm)

\* C15 as stated: no resize (successful or failing) of, and no move
\* assignment into, a resizable object changes what capacity() returns.
C15_Original ==
  (Resizable /\ ev.op \in {"resize", "assign"}) => CapacityNow = CapacityBefore

\* C15 amended: a resize, successful or failing, and a move assignment whose
\* source could not be constructed leave capacity() as it was; a move
\* assignment gives the object the capacity of its source (the maxSize the
\* temporary reserved with its first mmap).
C15_CapacityFixedUntilAssigned ==
  /\ (Resizable /\ ev.op = "resize") => CapacityNow = CapacityBefore
  /\ (Resizable /\ ev.op = "assign" /\ ev.exc # "none") => CapacityNow = CapacityBefore
  /\ (Resizable /\ ev.op = "assign" /\ ev.exc = "none") =>
       os.log[1][1] = "mmap" /\ CapacityNow = os.log[1][3]

\* a ResizableFile with a view, assigned a temporary of another capacity
C15_Witness ==
  /\ ev.cls = "file" /\ ev.op = "assign" /\ ev.exc = "none"
  /\ RF_size(ev.pre.rf) > 0 /\ RF_capacity(rf) # RF_capacity(ev.pre.rf)

\* the file-backed views, by the mmap call that made them, that a page
\* table holds inside a reservation, and in the whole address space
ViewsIn(vm, m) ==
  IF m.m_address = MAP_FAILED THEN {}
  ELSE {vm[p].view : p \in {q \in Range(m.m_address, m.m_size) : vm[q].k = "file"}}
ViewsOf(vm) == {vm[p].view : p \in {q \in Pages : vm[q].k = "file"}}

\* the page tables an operation went through: the one each of its system
\* calls found, and the one it left
Steps == {os.hist[i] : i \in DOMAIN os.hist} \cup {os.vm}

\* C16: in every state a constructor, a resize, a move assignment or a
\* destructor of a ResizableFile goes through, the reservation of the object
\* (the one it had before, the one it has after) holds at most one
\* file-backed view, and the address space holds at most one per object
\* alive (two while the temporary of a move assignment exists).
C16_SingleViewPerReservation ==
  ev.cls = "file" =>
    \A vm \in Steps :
      /\ Cardinality(ViewsIn(vm, ev.pre.rf.m_reserved)) <= 1
      /\ Cardinality(ViewsIn(vm, rf.m_reserved)) <= 1
      /\ Cardinality(ViewsOf(vm)) <= IF ev.op = "assign" THEN 2 ELSE 1

\* a shrinking resize: a view before, none in between, a shorter one after
C16_Witness ==
  /\ FileResizeOk /\ ev.n > 0 /\ ev.n < RF_size(ev.pre.rf)
  /\ NumPages(ev.n) < NumPages(RF_size(ev.pre.rf))
  /\ ViewsIn(os.hist[1], rf.m_reserved) # {}
  /\ \E i \in DOMAIN os.hist : ViewsIn(os.hist[i], rf.m_reserved) = {}
  /\ ViewsIn(os.vm, rf.m_reserved) # {}

\* the positions in the log of the calls that release the resources the
\* object held before the operation
ViewReleases ==
  {i \in DOMAIN os.log : os.log[i] = <<"mmap", ev.pre.rf.m_mapped.m_address,
                                         ev.pre.rf.m_mapped.m_size, "none">>}
FileReleases == {i \in DOMAIN os.log : os.log[i] = <<"close", ev.pre.rf.m_file>>}
ReservationReleases ==
  {i \in DOMAIN os.log : os.log[i] = <<"munmap", ev.pre.rf.m_reserved.m_address,
                                         ev.pre.rf.m_reserved.m_size>>}
FileReleased == ev.cls = "file" /\ ev.op \in {"drop", "assign"} /\ ev.exc = "none"

\* C17: when the destructor or a move assignment releases what a
\* ResizableFile held, the view (if there is one) is reverted first, then
\* the descriptor is closed, then the reservation is unmapped, each once;
\* and the reservation holds no file-backed page when it is unmapped.
C17_ReleaseOrder ==
  FileReleased =>
    /\ Cardinality(FileReleases) = 1 /\ Cardinality(ReservationReleases) = 1
    /\ Cardinality(ViewReleases) = IF ev.pre.rf.m_mapped.has THEN 1 ELSE 0
    /\ \A v \in ViewReleases : \A c \in FileReleases : v < c
    /\ \A c \in FileReleases : \A u \in ReservationReleases : c < u
    /\ \A u \in ReservationReleases : ViewsIn(os.hist[u], ev.pre.rf.m_reserved) = {}

\* a move assignment over an object that held a view
C17_Witness ==
  /\ FileReleased /\ ev.op = "assign" /\ ev.pre.rf.m_mapped.has
  /\ ViewReleases # {} /\ RF_size(rf) > 0

\* ------------------------------------------- claims about failing system calls
\* C18: a failure of the sync or of the unmap made while a mapping is
\* dropped (by a destructor, or by resize dropping the old view) does not
\* end the program and does not reach the caller, and the drop completes:
\* after a destructor no descriptor is open and no page is mapped.
C18_DropFailureSwallowed ==
  /\ ev.exc # "terminate"
  /\ (ev.op = "drop" /\ os.failed) =>
       ev.exc = "none" /\ os.fds = {} /\ \A p \in Pages : os.vm[p].k = "free"

ReservationIntact ==
  \A p \in Range(rf.m_reserved.m_address, rf.m_reserved.m_size) :
    os.vm[p].k = "anon" /\ os.vm[p].prot = "none"
       /\ os.vm[p].view[1] \in {rf.m_reserved.m_address}

FileResizeFailedInWindow ==
  ev.cls = "file" /\ ev.op = "resize" /\ ev.exc = "mapping_error"

\* C19 as stated: a resize(n) that fails with an OS error after the view
\* was released leaves data() null and size() 0, and the next resize(m)
\* whose system calls succeed ends with data() the base and size() m.
C19_Original ==
  /\ FileResizeFailedInWindow => RF_data(rf) = nullptr /\ RF_size(rf) = 0
  /\ rf.window = "recovered" =>
       RF_data(rf) = rf.m_reserved.m_address /\ RF_size(rf) = ev.n

\* C19 amended: the same, with data() the base for m > 0 and null for m = 0.
\* After the failure the object is live, holds no view, and its reservation
\* is whole and inaccessible; a resize within the capacity fails only when
\* one of its own system calls fails.
C19_RetryAfterFailedResize ==
  /\ FileResizeFailedInWindow =>
       /\ rf.st = "live" /\ RF_data(rf) = nullptr /\ RF_size(rf) = 0
       /\ os.failed /\ ReservationIntact
  /\ (ev.cls = "file" /\ ev.op = "resize" /\ ~os.failed) =>
       ev.exc = IF ev.n > RF_capacity(rf) THEN "bad_alloc" ELSE "none"
  /\ rf.window = "recovered" =>
       /\ FileResizeOk /\ ~os.failed
       /\ RF_size(rf) = ev.n /\ Len(os.disk.bytes) = ev.n
       /\ RF_data(rf) = IF ev.n = 0 THEN nullptr ELSE rf.m_reserved.m_address

\* a resize to a non-zero size right after one that failed in its last call
\* (the mmap of the new view, the file already truncated)
C19_Witness ==
  /\ rf.window = "recovered" /\ ev.n > 0 /\ RF_size(rf) = ev.n
  /\ RF_data(rf) = rf.m_reserved.m_address /\ RF_data(rf) # nullptr

ConstructFailed ==
  /\ Resizable /\ ev.op = "construct"
  /\ ev.exc \in {"mapping_error", "mapped_file_error", "bad_alloc"}

\* C20: when the constructor of a ResizableFile or a ResizableMemory throws
\* (the reservation, the open, the fstat or the initial map failed, the file
\* is longer or the initial size larger than the capacity), no object
\* exists, no descriptor is open and no page is mapped when the caller
\* catches the exception.
C20_ConstructorUnwinds ==
  ConstructFailed =>
    /\ rf.st = "none" /\ rm.st = "none"
    /\ os.fds = {}
    /\ \A p \in Pages : os.vm[p].k = "free"

\* the initial map of a non-empty file failed: the descriptor is closed and
\* the reservation unmapped on the way out
C20_Witness ==
  /\ ConstructFailed /\ ev.cls = "file" /\ os.failed
  /\ os.log = <<<<"mmap">>, <<"open">>, <<"fstat">>, <<"mmap">>, <<"close">>, <<"munmap">>>>
  /\ os.fds = {} /\ \A p \in Pages : os.vm[p].k = "free"

\* no page of the reservation m is unmapped in the page table vm
Held(vm, m) == \A p \in Range(m.m_address, m.m_size) : vm[p].k # "free"

\* a resize rejected for its size, or failed by the system, has not ended
\* the program
ResizeFailed == ev.op = "resize" /\ ev.exc \in {"bad_alloc", "mapping_error"}

\* C21: a resizable object has no terminal state other than drop. Whatever
\* resizes succeeded or failed before, the object is live after a failed
\* resize, and a resize(m) with m <= capacity() whose system calls succeed
\* is accepted and ends with size() = m.
C21_ResizeAlwaysAccepted ==
  /\ (ResizeFailed /\ ev.cls = "file") =>
       rf.st = "live" /\ rf.m_file \in os.fds /\ Held(os.vm, rf.m_reserved)
  /\ (ResizeFailed /\ ev.cls = "memory") =>
       rm.st = "live" /\ Held(os.vm, rm.m_reserved)
  /\ (ev.cls = "file" /\ ev.op = "resize" /\ ev.n <= RF_capacity(rf) /\ ~os.failed) =>
       ev.exc = "none" /\ RF_size(rf) = ev.n
  /\ (ev.cls = "memory" /\ ev.op = "resize" /\ ev.n <= RM_capacity(rm) /\ ~os.failed) =>
       ev.exc = "none" /\ RM_size(rm) = ev.n

\* resize(m), m > 0, succeeding right after a resize that was rejected with
\* bad_alloc
C21_Witness ==
  /\ FileResizeOk /\ rf.window = "accepted" /\ ev.n > 0 /\ RF_size(rf) = ev.n

\* a constructor or a resize of a resizable object has run
Raised == ev.cls \in {"file", "memory"} /\ ev.op \in {"construct", "resize"}

\* the size asked for, or the length of the file found by the constructor,
\* is above the capacity
AboveCapacity ==
  \/ ev.cls = "file" /\ ev.op = "resize" /\ ev.n > RF_capacity(rf)
  \/ ev.cls = "memory" /\ ev.op = "resize" /\ ev.n > RM_capacity(rm)
  \/ ev.cls = "file" /\ ev.op = "construct" /\ Len(os.disk.bytes) > ev.n
  \/ ev.cls = "memory" /\ ev.op = "construct" /\ ev.n > ev.cap

\* the capacity handed to the constructor that has run
MaxSize == IF ev.cls = "file" THEN ev.n ELSE ev.cap

\* C22 as stated: bad_alloc is raised by a constructor or a resize exactly
\* when the size asked for, or the length of the existing file, is above
\* the capacity.
C22_Original ==
  Raised => (ev.exc = "bad_alloc" <=> AboveCapacity)

\* C22 amended: an error of a constructor or a resize that reaches the
\* caller is a mapped_file_error, a mapping_error or a bad_alloc. It is a
\* mapped_file_error exactly when open failed; a mapping_error only when
\* another system call failed (a reservation of length 0 is refused by
\* mmap); a bad_alloc only when the size or the file length is above the
\* capacity, raised by the capacity check. A resize above the capacity always
\* ends with bad_alloc; a constructor above the capacity always fails, with
\* bad_alloc unless the reservation, the open or the fstat failed first.
C22_ErrorKinds ==
  Raised =>
    /\ ev.exc \in {"none", "terminate", "mapped_file_error", "mapping_error", "bad_alloc"}
    /\ ev.exc = "mapped_file_error" <=>
         /\ ev.cls = "file" /\ ev.op = "construct" /\ os.failed
         /\ os.log = <<<<"mmap">>, <<"open">>, <<"munmap">>>>
    /\ ev.exc = "mapping_error" =>
         os.failed \/ (ev.op = "construct" /\ MaxSize = 0)
    /\ ev.exc = "bad_alloc" =>
         /\ AboveCapacity
         /\ os.log = IF ev.op = "resize" THEN <<>>
                     ELSE IF ev.cls = "memory" THEN <<<<"mmap">>, <<"munmap">>>>
                     ELSE <<<<"mmap">>, <<"open">>, <<"fstat">>, <<"close">>, <<"munmap">>>>
    /\ (AboveCapacity /\ ev.op = "resize") => ev.exc = "bad_alloc" /\ os.log = <<>>
    /\ (AboveCapacity /\ ev.op = "construct") =>
         /\ ev.exc # "none"
         /\ (~os.failed /\ MaxSize > 0) => ev.exc = "bad_alloc"

\* the three kinds met: a constructor finds the file longer than the
\* capacity; (the others are reached with it in the same run)
C22_Witness ==
  /\ ev.cls = "file" /\ ev.op = "construct" /\ ev.exc = "bad_alloc"
  /\ Len(os.disk.bytes) > ev.n /\ ev.n > 0
  /\ os.log = <<<<"mmap">>, <<"open">>, <<"fstat">>, <<"close">>, <<"munmap">>>>

\* the calls of the last operation that release a mapping or a descriptor
Munmaps == {i \in DOMAIN os.log : os.log[i][1] = "munmap"}
Closes  == {i \in DOMAIN os.log : os.log[i][1] = "close"}

\* the object holds its reservation, descriptor and view, and nothing else
\* is mapped or open
FileOwnsAll ==
  /\ rf.st = "live" /\ rf.m_reserved.m_address # MAP_FAILED
  /\ Held(os.vm, rf.m_reserved)
  /\ \A p \in Pages \ Range(rf.m_reserved.m_address, rf.m_reserved.m_size) :
       os.vm[p].k = "free"
  /\ os.fds = {rf.m_file}
  /\ ViewsOf(os.vm) = IF rf.m_mapped.has
                       THEN {<<rf.m_mapped.m_address, rf.m_mapped.m_size>>} ELSE {}
  /\ rf.m_mapped.has => rf.m_mapped.m_address = rf.m_reserved.m_address
MemOwnsAll ==
  /\ rm.st = "live" /\ rm.m_reserved.m_address # MAP_FAILED
  /\ Held(os.vm, rm.m_reserved)
  /\ \A p \in Pages \ Range(rm.m_reserved.m_address, rm.m_reserved.m_size) :
       os.vm[p].k = "free"
  /\ os.fds = {}

Moved(cls) == ev.cls = cls /\ ev.op = "move"
AssignedOk(cls) == ev.cls = cls /\ ev.op = "assign" /\ ev.exc = "none"
DroppedOk(cls) == ev.cls = cls /\ ev.op = "drop" /\ ev.exc = "none"

\* C23: a move construction makes no system call and the new object holds
\* exactly what the source held, still mapped and open after the source is
\* destroyed. After a move assignment and the destruction of its source the
\* destination holds the reservation, descriptor and view the source was
\* constructed with, what the destination held before was released once,
\* and nothing of the source's was released. The destructor of the object
\* then releases each of them once and leaves nothing mapped or open.
C23_MoveTransfersOwnership ==
  /\ Moved("file") =>
       /\ ev.exc = "none" /\ os.log = <<>>
       /\ rf = ev.pre.rf /\ os.vm = ev.pre.os.vm /\ os.fds = ev.pre.os.fds
       /\ FileOwnsAll
  /\ Moved("memory") =>
       /\ ev.exc = "none" /\ os.log = <<>>
       /\ rm = ev.pre.rm /\ os.vm = ev.pre.os.vm
       /\ MemOwnsAll
  /\ AssignedOk("file") =>
       /\ FileOwnsAll
       /\ rf.m_file # ev.pre.rf.m_file
       /\ rf.m_reserved.m_address # ev.pre.rf.m_reserved.m_address
       /\ Closes = FileReleases /\ Cardinality(Closes) = 1
       /\ Munmaps = ReservationReleases /\ Cardinality(Munmaps) = 1
  /\ AssignedOk("memory") =>
       /\ MemOwnsAll
       /\ rm.m_reserved.m_address # ev.pre.rm.m_reserved.m_address
       /\ Cardinality(Munmaps) = 1
       /\ \A i \in Munmaps : os.log[i] = <<"munmap", ev.pre.rm.m_reserved.m_address,
                                             ev.pre.rm.m_reserved.m_size>>
  /\ DroppedOk("file") =>
       /\ os.fds = {} /\ \A p \in Pages : os.vm[p].k = "free"
       /\ Closes = FileReleases /\ Cardinality(Closes) = 1
       /\ Munmaps = ReservationReleases /\ Cardinality(Munmaps) = 1
  /\ DroppedOk("memory") =>
       /\ os.fds = {} /\ \A p \in Pages : os.vm[p].k = "free"
       /\ Cardinality(Munmaps) = 1

\* a ResizableFile with a view was move constructed from, and its source
\* destroyed
C23_Witness ==
  /\ Moved("file") /\ RF_size(rf) > 0 /\ RF_data(rf) = rf.m_reserved.m_address
  /\ ViewsOf(os.vm) # {} /\ os.log = <<>>

\* ------------------------------------- claims about the committed length
\* the pages a resize of a ResizableMemory gave back, and the ones it added
MemShrunk == MemResizeOk /\ rm.m_mappedSize < ev.pre.rm.m_mappedSize
MemGrown  == MemResizeOk /\ rm.m_mappedSize > ev.pre.rm.m_mappedSize
ReleasedPages ==
  Range(rm.m_reserved.m_address + rm.m_mappedSize,
        ev.pre.rm.m_mappedSize - rm.m_mappedSize)
AddedPages ==
  Range(rm.m_reserved.m_address + ev.pre.rm.m_mappedSize,
        rm.m_mappedSize - ev.pre.rm.m_mappedSize)

\* C24: when resize(n) of a ResizableMemory lowers the committed length,
\* the pages between the new and the old committed length are inaccessible
\* and emptied (mprotect PROT_NONE, then madvise), every page of the
\* reservation stays mapped, and base and capacity are unchanged. In every
\* state the pages of the reservation past the committed length are empty,
\* so the pages a later growth adds read as zero.
C24_ShrinkDiscardsPages ==
  /\ MemShrunk =>
       /\ rm.m_mappedSize = NumPages(ev.n) * PageSize
       /\ \A p \in ReleasedPages :
            os.vm[p].k = "anon" /\ os.vm[p].prot = "none" /\ os.vm[p].data = ZeroPage
       /\ Held(os.vm, rm.m_reserved)
       /\ rm.m_reserved = ev.pre.rm.m_reserved
       /\ os.log = <<<<"mprotect", rm.m_reserved.m_address + rm.m_mappedSize,
                       ev.pre.rm.m_mappedSize - rm.m_mappedSize, "none">>,
                     <<"madvise", rm.m_reserved.m_address + rm.m_mappedSize,
                       ev.pre.rm.m_mappedSize - rm.m_mappedSize>>>>
  /\ rm.st = "live" =>
       \A p \in Range(rm.m_reserved.m_address, rm.m_reserved.m_size)
                 \ Range(rm.m_reserved.m_address, rm.m_mappedSize) :
         os.vm[p].prot = "none" /\ os.vm[p].data = ZeroPage
  /\ MemGrown =>
       \A p \in AddedPages : os.vm[p].prot = "rw" /\ os.vm[p].data = ZeroPage

\* a shrink that gives back a page the caller had written to
C24_Witness ==
  /\ MemShrunk /\ ReleasedPages # {}
  /\ \E p \in ReleasedPages :
       ev.pre.os.vm[p].data # ZeroPage /\ ev.pre.os.vm[p].prot = "rw"
                                        /\ os.vm[p].data = ZeroPage

\* C25: when resize(n) of a ResizableMemory leaves the committed length as
\* it is (n and the old size round up to the same number of pages), only
\* size() changes: no system call is made, the page table (protection and
\* contents of every page) is as before, and so are capacity and base.
C25_SizeOnlyResize ==
  (MemResizeOk /\ NumPages(ev.n) = NumPages(RM_size(ev.pre.rm))) =>
    /\ os.log = <<>>
    /\ os.vm = ev.pre.os.vm
    /\ rm.m_reserved = ev.pre.rm.m_reserved
    /\ RM_capacity(rm) = RM_capacity(ev.pre.rm)
    /\ rm.m_mappedSize = ev.pre.rm.m_mappedSize
    /\ RM_size(rm) = ev.n

\* a resize to another size inside the same, written, page
C25_Witness ==
  /\ MemResizeOk /\ ev.n > 0 /\ ev.n # RM_size(ev.pre.rm)
  /\ NumPages(ev.n) = NumPages(RM_size(ev.pre.rm))
  /\ RM_size(rm) = ev.n /\ os.log = <<>>
  /\ \E p \in Pages : os.vm[p].data # ZeroPage

\* ------------------------------------------------ claims about the flush
\* the calls of the last operation that flush a range, and that release one
\* (munmap, or the mmap that reverts a fixed mapping to PROT_NONE)
Syncs == {i \in DOMAIN os.log : os.log[i][1] = "msync"}
Releases ==
  {i \in DOMAIN os.log :
     \/ os.log[i][1] = "munmap"
     \/ os.log[i][1] = "mmap" /\ os.log[i][2] # nullptr /\ os.log[i][4] = "none"}

\* the MemoryMap<PROT_READ|PROT_WRITE> the operation started with, if any:
\* the view of a ResizableMappedFile, the mapping of a MappedFile<true>
WritableBefore ==
  IF ev.cls = "file" /\ ev.pre.rf.m_mapped.has THEN {ev.pre.rf.m_mapped}
  ELSE IF ev.cls = "mapped" /\ ev.pre.mf.st = "live" /\ ev.pre.mf.writable
       THEN {ev.pre.mf.m_mapped}
  ELSE {}

\* the call at i releases the mapping m: a mapping made with MAP_FIXED is
\* reverted, another one unmapped
ReleaseOf(i, m) ==
  /\ i \in Releases
  /\ os.log[i][1] = IF m.m_fixed THEN "mmap" ELSE "munmap"
  /\ os.log[i][2] = m.m_address /\ os.log[i][3] = m.m_size

\* the last operation dropped the mappings it started with
Dropping ==
  \/ ev.op \in {"drop", "assign"} /\ ev.exc = "none"
  \/ ev.cls = "file" /\ ev.op = "resize" /\ ev.exc = "none"

\* C26: a destructor, a move assignment and the view drop inside
\* ResizableMappedFile::resize call msync on the whole range of a writable
\* mapping, while it is still mapped, right before the call that unmaps it
\* or reverts it to PROT_NONE; no other msync is made, so a read-only
\* mapping and a PROT_NONE reservation are released without a flush.
C26_FlushBeforeRelease ==
  /\ \A i \in Releases :
       IF \E m \in WritableBefore : ReleaseOf(i, m)
       THEN /\ i > 1 /\ os.log[i - 1] = <<"msync", os.log[i][2], os.log[i][3]>>
            /\ \A p \in Range(os.log[i][2], os.log[i][3]) :
                 os.hist[i - 1][p].k = "file" /\ os.hist[i - 1][p].prot = "rw"
       ELSE i = 1 \/ os.log[i - 1][1] # "msync"
  /\ \A s \in Syncs : s + 1 \in Releases
  /\ Dropping =>
       /\ Cardinality(Syncs) = Cardinality(WritableBefore)
       /\ \A m \in WritableBefore : \E i \in Releases : ReleaseOf(i, m)

\* a writable whole-file mapping was dropped: msync, then munmap
C26_Witness ==
  /\ ev.cls = "mapped" /\ ev.op = "drop" /\ ev.pre.mf.writable
  /\ Len(os.log) = 3 /\ os.log[1][1] = "msync" /\ os.log[2][1] = "munmap"
  /\ os.log[1][3] > 0

\* -------------------------------------------- claims about the reservation
\* the page tables the last operation on a live ResizableMappedFile went
\* through while the object had its reservation: all but the one the
\* constructor found
Instants ==
  IF ev.op = "construct"
  THEN {os.hist[i] : i \in 2..Len(os.hist)} \cup {os.vm}
  ELSE Steps

\* page p of the page table vm is reservation (anonymous, PROT_NONE) or a
\* page of a view mapped at the base of the reservation
ReservedOrView(vm, p) ==
  \/ vm[p].k = "anon" /\ vm[p].prot = "none"
  \/ /\ vm[p].k = "file" /\ vm[p].prot = "rw"
     /\ vm[p].view[1] = rf.m_reserved.m_address
     /\ p \in Range(vm[p].view[1], vm[p].view[2])

\* C29: from the construction of a ResizableFile to its drop, also between
\* the system calls of resize, every page of [base, base + capacity) is
\* either PROT_NONE reservation or a page of the view; none is unmapped, so
\* the kernel can place no other mapping there. Between operations the
\* pages of the view are the first ceil(size / pageSize) ones.
C29_RangeAlwaysMapped ==
  (rf.st = "live" /\ ev.cls = "file" /\ ev.op \in {"construct", "resize", "write"}) =>
    /\ \A vm \in Instants :
         /\ \A p \in Range(rf.m_reserved.m_address, rf.m_reserved.m_size) :
              ReservedOrView(vm, p)
         /\ \A a \in Placements([os EXCEPT !.vm = vm], 1) :
              PageOf(a) \notin Range(rf.m_reserved.m_address, rf.m_reserved.m_size)
    /\ \A p \in Range(rf.m_reserved.m_address, rf.m_reserved.m_size) :
         os.vm[p].k = IF p \in Range(rf.m_reserved.m_address, RF_size(rf))
                      THEN "file" ELSE "anon"

\* a shrink by a page: the whole range is reservation between the drop of
\* the old view and the mapping of the new one, and the page given up is
\* reservation afterwards
C29_Witness ==
  /\ FileResizeOk /\ ev.n > 0 /\ NumPages(ev.n) < NumPages(RF_size(ev.pre.rf))
  /\ \E vm \in Instants :
       \A p \in Range(rf.m_reserved.m_address, rf.m_reserved.m_size) : vm[p].k = "anon"
  /\ \E p \in Range(rf.m_reserved.m_address, rf.m_reserved.m_size) :
       os.vm[p].k = "anon" /\ os.hist[1][p].k = "file"

\* C30 as stated: whenever a ResizableFile is live between operations,
\* after a failed resize too, the file is size() bytes long.
C30_Original ==
  (rf.st = "live" /\ Alive) => Len(os.disk.bytes) = RF_size(rf)

\* C30 amended: the file is size() bytes long after the construction, after
\* a successful resize and after a resize rejected with bad_alloc that
\* followed them. From a resize that failed on ftruncate or on the mmap of
\* the new view until the next successful resize, size() is 0 while the
\* file has the length it had (ftruncate failed) or the length asked for
\* (mmap failed).
C30_FileLengthIsSizeUnlessFailed ==
  (rf.st = "live" /\ Alive) =>
    /\ rf.window # "failed" => Len(os.disk.bytes) = RF_size(rf)
    /\ rf.window = "failed" => RF_size(rf) = 0 /\ RF_data(rf) = nullptr
    /\ (FileResizeFailedInWindow /\ os.log[Len(os.log)][1] = "mmap") =>
         Len(os.disk.bytes) = ev.n /\ ev.n > 0
    /\ FileResizeFailedInWindow => rf.window = "failed"

\* the mmap of the new view failed after the file was truncated to n > 0
C30_Witness ==
  /\ FileResizeFailedInWindow /\ os.log[Len(os.log)][1] = "mmap"
  /\ Len(os.disk.bytes) = ev.n /\ ev.n > 0 /\ RF_size(rf) = 0

WinResizeOk == ev.cls = "winfile" /\ ev.op = "resize" /\ ev.exc = "none"

\* C27: on Windows, after every successful resize of a ResizableMappedFile
\* data() is non-null and is the address the first successful resize left,
\* a view of capacity bytes is mapped there, the first successful resize
\* created the section and mapped that view with length capacity, and every
\* later successful resize issued one NtExtendSection and nothing else.
C27_ViewMappedOnce ==
  WinResizeOk =>
    /\ Win_RF_data(wrf) # nullptr
    /\ Win_RF_data(wrf) = wrf.data1
    /\ \A p \in Range(Win_RF_data(wrf), wrf.m_capacity) :
         os.vm[p].view = <<Win_RF_data(wrf), wrf.m_capacity>>
    /\ os.log = IF wrf.resizes = 1
                THEN <<<<"NtCreateSection", ev.n>>,
                       <<"NtMapViewOfSection", wrf.m_section.m_handle, wrf.m_capacity>>>>
                ELSE <<<<"NtExtendSection", wrf.m_section.m_handle, ev.n>>>>

WinMapOpened == ev.cls = "winmapped" /\ ev.op = "construct" /\ ev.exc = "none"

\* C28: the pages of a live whole-file mapping are readable and writable when
\* the mapping is of the writable variant and readable only when it is of
\* the read-only variant, on either back-end, and the Windows constructor
\* opens the file with GENERIC_READ alone for the read-only variant.
C28_AccessFollowsType ==
  /\ mf.st = "live" =>
       \A p \in Range(MF_data(mf), MF_size(mf)) :
         os.vm[p].prot = IF mf.writable THEN "rw" ELSE "r"
  /\ wmf.st = "live" =>
       \A p \in Range(Win_MF_data(wmf), Win_MF_size(wmf)) :
         os.vm[p].prot = IF wmf.writable THEN "rw" ELSE "r"
  /\ WinMapOpened =>
       os.log[1] = <<"CreateFileW",
                     IF wmf.writable THEN {"GENERIC_READ", "GENERIC_WRITE"}
                     ELSE {"GENERIC_READ"},
                     "OPEN_EXISTING">>

MemResizeRaised == ev.cls = "memory" /\ ev.op = "resize" /\ ev.exc = "mapping_error"

\* the read/write pages of the reservation of o are exactly the first
\* ceil(len / pageSize) ones
AccessiblePrefix(vm, o, len) ==
  \A p \in Range(o.m_reserved.m_address, o.m_reserved.m_size) :
    vm[p].prot = IF p \in Range(o.m_reserved.m_address, len) THEN "rw" ELSE "none"

\* C31: a ResizableMemory resize(n) that fails with an OS error leaves
\* size() and the committed length as they were and the accessible pages
\* exactly the committed prefix of the reservation, and every successful
\* resize, also one that follows such a failure, leaves exactly the first
\* ceil(n / pageSize) pages accessible.
C31_FailedResizeLeavesMemory ==
  /\ MemResizeRaised =>
       /\ rm.m_size = ev.pre.rm.m_size
       /\ rm.m_mappedSize = ev.pre.rm.m_mappedSize
       /\ AccessiblePrefix(os.vm, rm, rm.m_mappedSize)
  /\ MemResizeOk => AccessiblePrefix(os.vm, rm, ev.n)

\* C32: a live Windows ResizableMappedFile holds a section exactly when it
\* holds a view of it, whatever resize calls succeeded or failed before:
\* size() > 0 implies that data() is non-null.
C32_SectionOnlyWithView ==
  wrf.st = "live" =>
    /\ wrf.m_section.has <=> wrf.m_view.has
    /\ Win_RF_size(wrf) > 0 => Win_RF_data(wrf) # nullptr

MovedFromNow == (Moved("file") \/ Moved("memory") \/ AssignedOk("file") \/ AssignedOk("memory"))
                /\ ev.exc = "none"

\* C33: after a move construction from, or a move assignment of, a POSIX
\* ResizableFile or ResizableMemory, the object moved from reports a null
\* data() and a size() of 0.
C33_MovedFromIsEmpty ==
  MovedFromNow => ev.src.data = nullptr /\ ev.src.size = 0

FileMovedNow == (Moved("file") \/ AssignedOk("file")) /\ ev.exc = "none"

\* a resize or a destructor has released a view that had been moved
MovedViewReleased ==
  /\ ev.cls = "file" /\ ev.op \in {"resize", "drop"} /\ ev.exc = "none"
  /\ ev.pre.moved

\* C34: a move construction leaves m_fixed of every MemoryMap member as it
\* was in the source, and after a move construction or a move assignment
\* the view of a ResizableFile is a fixed mapping and its reservation is
\* not. The next resize or drop of such an object reverts the range of the
\* moved view to PROT_NONE with a fixed mmap, and no page of the reservation
\* is unmapped before the reservation itself is released.
C34_MoveKeepsFixed ==
  /\ (Moved("file") /\ ev.exc = "none") =>
       /\ rf.m_reserved.m_fixed = ev.pre.rf.m_reserved.m_fixed
       /\ rf.m_mapped.has => rf.m_mapped.m_fixed = ev.pre.rf.m_mapped.m_fixed
  /\ (Moved("memory") /\ ev.exc = "none") =>
       rm.m_reserved.m_fixed = ev.pre.rm.m_reserved.m_fixed
  /\ FileMovedNow =>
       /\ ~rf.m_reserved.m_fixed
       /\ rf.m_mapped.has => rf.m_mapped.m_fixed
  /\ MovedViewReleased =>
       /\ \E i \in DOMAIN os.log :
            os.log[i] = <<"mmap", ev.pre.rf.m_mapped.m_address, ev.pre.rf.m_mapped.m_size,
                          "none">>
       /\ \A i \in DOMAIN os.hist : Held(os.hist[i], ev.pre.rf.m_reserved)
       /\ ev.op = "resize" => Held(os.vm, ev.pre.rf.m_reserved)

\* a moved ResizableFile was shrunk by a page: the page given up is
\* reservation again
C34_Witness ==
  /\ MovedViewReleased /\ ev.op = "resize" /\ ev.n > 0
  /\ NumPages(ev.n) < NumPages(RF_size(ev.pre.rf))
  /\ \E p \in Range(rf.m_reserved.m_address, rf.m_reserved.m_size) :
       os.vm[p].k = "anon" /\ os.vm[p].prot = "none" /\ os.hist[1][p].k = "file"

WinMapAssignedOk == ev.cls = "winmapped" /\ ev.op = "assign" /\ ev.exc = "none"

\* the calls of the last operation that unmapped the view at address a
UnmapsOf(a) == {i \in DOMAIN os.log : os.log[i] = <<"UnmapViewOfFile", a>>}

\* C35: a move assignment over a Windows whole-file mapping that holds a
\* view unmaps that view exactly once and leaves the view it took over
\* mapped, and after the drop of the objects no page of a view is mapped.
C35_AssignUnmapsPreviousView ==
  /\ WinMapAssignedOk =>
       /\ Cardinality(UnmapsOf(ev.pre.wmf.m_rawView)) = 1
       /\ \A p \in Range(ev.pre.wmf.m_rawView, ev.pre.wmf.m_size) : os.vm[p].k = "free"
       /\ \A p \in Range(Win_MF_data(wmf), Win_MF_size(wmf)) : os.vm[p].k = "file"
  /\ (ev.cls = "winmapped" /\ ev.op = "drop") =>
       \A p \in Pages : os.vm[p].k = "free"

====
